---- MODULE Spec2Model ----
(***************************************************************************)
(* Layered user-space filesystem of Fluorine-Manager: the layered tree     *)
(* (vfs/vfstree.cpp), the inode table (vfs/inodetable.cpp), the overwrite  *)
(* manager (vfs/overwritemanager.cpp), the filesystem adapter              *)
(* (vfs/mo2filesystem.cpp) and the mount controller (fuseconnector.cpp).   *)
(*                                                                         *)
(* A path string is a sequence of tokens: a token is a separator ("/" or   *)
(* "\\") or one whole name segment; no string built here has two adjacent  *)
(* name segments.  A disk location is [root, rel]: the directory it lives  *)
(* under and the case-sensitive components below it.  Time stamps (mtime)  *)
(* are left out: no operation branches on them.                            *)
(***************************************************************************)
EXTENDS Integers, Sequences, FiniteSets, TLC

(* ------------------------------ bounds --------------------------------- *)
\* largest offset the host writes at (a write is one byte long)
MaxOff == 1
\* handles the adapter hands out in one run
MaxHandles == 1
\* adapter/controller operations in one run, after the mount
MaxOps == 3
\* inodes a table hands out when it is driven on its own
MaxInodes == 4

(* ------------------------------ strings -------------------------------- *)
IsSep(t) == t = "/" \/ t = "\\"

\* QString::toLower on the name segments of the model
Lower(t) == IF t = "A" THEN "a" ELSE IF t = "D" THEN "d" ELSE t

replaceBackslash(s) == [i \in DOMAIN s |-> IF s[i] = "\\" THEN "/" ELSE s[i]]

RECURSIVE stripLeading(_)
stripLeading(s) == IF s # <<>> /\ Head(s) = "/" THEN stripLeading(Tail(s)) ELSE s

RECURSIVE stripTrailing(_)
stripTrailing(s) ==
  IF s # <<>> /\ s[Len(s)] = "/" THEN stripTrailing(SubSeq(s, 1, Len(s) - 1)) ELSE s

splitPath(path) == SelectSeq(replaceBackslash(path), LAMBDA t : t # "/")

joinPath(base, name) == IF base = <<>> THEN name ELSE base \o <<"/">> \o name

normalizeForLookup(path) ==
  [i \in DOMAIN path |-> IF path[i] = "\\" THEN "/" ELSE Lower(path[i])]

canonicalizePath(path) == stripTrailing(stripLeading(replaceBackslash(path)))

sanitizeRelative(relative) == stripLeading(replaceBackslash(relative))

\* a variant that keeps every component as it is spelled
Keys_asSpelled(components) == components

\* the children-map keys along a component list
Keys(components) == [i \in DOMAIN components |-> Lower(components[i])]

IsPrefix(p, q) == Len(p) <= Len(q) /\ SubSeq(q, 1, Len(p)) = p
IsStrictPrefix(p, q) == Len(p) < Len(q) /\ SubSeq(q, 1, Len(p)) = p
Parent(p) == SubSeq(p, 1, Len(p) - 1)

(* ------------------------------ the tree ------------------------------- *)
\* A snapshot's nodes: a function from key paths (below the root) to nodes.
\* A node's entry in its parent's display_names map is its field display.
NoLoc == [root |-> "none", rel |-> <<>>]

DirNode(display) ==
  [is_directory |-> TRUE, real_path |-> NoLoc, size |-> 0, origin |-> "",
   is_backing |-> FALSE, display |-> display]

FileNode(real_path, size, origin, is_backing, display) ==
  [is_directory |-> FALSE, real_path |-> real_path, size |-> size,
   origin |-> origin, is_backing |-> is_backing, display |-> display]

\* a variant that keeps the spelling a directory on the way is listed with
WalkDir_keepDisplay(nodes, K, components, i) ==
  LET P == SubSeq(K, 1, i) IN
  IF P \in DOMAIN nodes /\ nodes[P].is_directory
    THEN nodes[P]
    ELSE DirNode(components[i])

\* the node a walk down `components` passes through at depth i < Len
WalkDir(nodes, K, components, i) ==
  LET P == SubSeq(K, 1, i) IN
  IF P \in DOMAIN nodes /\ nodes[P].is_directory
    THEN [nodes[P] EXCEPT !.display = components[i]]
    ELSE DirNode(components[i])

insertFile(nodes, components, real_path, size, origin, is_backing) ==
  IF components = <<>> THEN nodes
  ELSE
    LET K    == Keys(components)
        n    == Len(components)
        kept == {P \in DOMAIN nodes : ~IsPrefix(K, P)}
        pre  == {SubSeq(K, 1, i) : i \in 1..(n - 1)}
    IN [P \in kept \cup pre \cup {K} |->
          IF P = K THEN FileNode(real_path, size, origin, is_backing, components[n])
          ELSE IF P \in pre THEN WalkDir(nodes, K, components, Len(P))
          ELSE nodes[P]]

insertDirectory(nodes, components) ==
  IF components = <<>> THEN nodes
  ELSE
    LET K   == Keys(components)
        n   == Len(components)
        pre == {SubSeq(K, 1, i) : i \in 1..n}
    IN [P \in DOMAIN nodes \cup pre |->
          IF P \in pre THEN WalkDir(nodes, K, components, Len(P)) ELSE nodes[P]]

\* VfsNode::resolve: TRUE when the descent reaches a node
Resolves(nodes, components) ==
  LET K == Keys(components) IN
  /\ \A i \in 1..(Len(K) - 1) :
       SubSeq(K, 1, i) \in DOMAIN nodes /\ nodes[SubSeq(K, 1, i)].is_directory
  /\ (K = <<>> \/ K \in DOMAIN nodes)

resolve(nodes, components) ==
  IF ~Resolves(nodes, components) THEN [found |-> FALSE, node |-> DirNode("")]
  ELSE IF Keys(components) = <<>> THEN [found |-> TRUE, node |-> DirNode("")]
  ELSE [found |-> TRUE, node |-> nodes[Keys(components)]]

HasChildren(nodes, P) == \E Q \in DOMAIN nodes : Len(Q) = Len(P) + 1 /\ IsPrefix(P, Q)

\* removeNodeRecursive: the nodes left, after the target (with its subtree)
\* and then every ancestor left without children is erased
RECURSIVE pruneEmpty(_, _)
pruneEmpty(nodes, P) ==
  IF P = <<>> THEN nodes
  ELSE IF P \in DOMAIN nodes /\ nodes[P].is_directory /\ ~HasChildren(nodes, P)
    THEN pruneEmpty([Q \in DOMAIN nodes \ {P} |-> nodes[Q]], Parent(P))
    ELSE pruneEmpty(nodes, Parent(P))

\* a variant that erases the target and leaves emptied ancestors in place
removeNodeRecursive_targetOnly(nodes, components) ==
  LET K == Keys(components) IN
  IF components = <<>> \/ ~Resolves(nodes, components) THEN nodes
  ELSE [Q \in {Q \in DOMAIN nodes : ~IsPrefix(K, Q)} |-> nodes[Q]]

removeNodeRecursive(nodes, components) ==
  LET K == Keys(components) IN
  IF components = <<>> \/ ~Resolves(nodes, components) THEN nodes
  ELSE pruneEmpty([Q \in {Q \in DOMAIN nodes : ~IsPrefix(K, Q)} |-> nodes[Q]],
                  Parent(K))

\* VfsNode::removeFromTree: whether something was removed, and what is left
removeFromTree(nodes, components) ==
  [removed |-> components # <<>> /\ Resolves(nodes, components),
   nodes   |-> removeNodeRecursive(nodes, components)]

\* VfsNode::listChildren of the directory at key path P
listChildren(nodes, P) ==
  {<<nodes[Q].display, nodes[Q].is_directory>> :
     Q \in {Q \in DOMAIN nodes : Len(Q) = Len(P) + 1 /\ IsPrefix(P, Q)}}

(* ------------------------------ the disk ------------------------------- *)
\* disk[root] maps the paths that exist under the root (<<>>: the root
\* directory itself) to [kind, bytes].
DirEntry == [kind |-> "dir", bytes |-> <<>>]
FileEntry(bytes) == [kind |-> "file", bytes |-> bytes]

Loc(root, rel) == [root |-> root, rel |-> rel]
OnDisk(d, l) == l.root \in DOMAIN d
Exists(d, l) == OnDisk(d, l) /\ l.rel \in DOMAIN d[l.root]
IsDir(d, l) == Exists(d, l) /\ d[l.root][l.rel].kind = "dir"
IsFile(d, l) == Exists(d, l) /\ d[l.root][l.rel].kind = "file"
ParentLoc(l) == Loc(l.root, Parent(l.rel))
\* the directory a path names is there to hold a new entry
ParentIsDir(d, l) == l.rel = <<>> \/ IsDir(d, ParentLoc(l))
Bytes(d, l) == d[l.root][l.rel].bytes

Put(d, l, e) ==
  [d EXCEPT ![l.root] = [p \in DOMAIN d[l.root] \cup {l.rel} |->
                           IF p = l.rel THEN e ELSE d[l.root][p]]]
Drop(d, root, gone) ==
  [d EXCEPT ![root] = [p \in DOMAIN d[root] \ gone |-> d[root][p]]]
Under(d, l) == {p \in DOMAIN d[l.root] : IsPrefix(l.rel, p)}

\* fs::create_directories: nothing is made when a file is in the way
createDirectoriesOk(d, l) ==
  OnDisk(d, l) /\ \A i \in 0..Len(l.rel) : ~IsFile(d, Loc(l.root, SubSeq(l.rel, 1, i)))
createDirectories(d, l) ==
  IF ~createDirectoriesOk(d, l) THEN d
  ELSE LET pre == {SubSeq(l.rel, 1, i) : i \in 0..Len(l.rel)} IN
       [d EXCEPT ![l.root] = [p \in DOMAIN d[l.root] \cup pre |->
                                IF p \in DOMAIN d[l.root] THEN d[l.root][p]
                                ELSE DirEntry]]

\* std::ofstream(dest, trunc): creates or empties a regular file
canOpenForWrite(d, l) == OnDisk(d, l) /\ ParentIsDir(d, l) /\ ~IsDir(d, l) /\ l.rel # <<>>
truncateOpen(d, l) == Put(d, l, FileEntry(<<>>))

\* fs::copy_file(src, dest, overwrite_existing)
copyFileOk(d, src, dest) == IsFile(d, src) /\ canOpenForWrite(d, dest)
\* a variant that creates the destination and copies nothing
copyFile_empty(d, src, dest) == Put(d, dest, FileEntry(<<>>))
copyFile(d, src, dest) == Put(d, dest, FileEntry(Bytes(d, src)))

\* fs::rename(from, to) inside one root
renameOk(d, from, to) ==
  /\ Exists(d, from) /\ from.rel # <<>> /\ to.rel # <<>>
  /\ ParentIsDir(d, to)
  /\ ~IsStrictPrefix(from.rel, to.rel)
  /\ IF IsFile(d, from) THEN ~IsDir(d, to)
     ELSE ~IsFile(d, to) /\ (Exists(d, to) /\ to # from => Under(d, to) = {to.rel})
diskRename(d, from, to) ==
  IF from = to THEN d
  ELSE LET moved == Under(d, from)
           dest(p) == to.rel \o SubSeq(p, Len(from.rel) + 1, Len(p))
           old == d[from.root]
           new == {dest(p) : p \in moved}
       IN [d EXCEPT ![from.root] =
             [q \in (DOMAIN old \ moved) \cup new |->
                IF q \in new
                  THEN old[CHOOSE p \in moved : dest(p) = q]
                  ELSE old[q]]]

\* fs::remove: a file or an empty directory
removeOk(d, l) == Exists(d, l) /\ (IsDir(d, l) => Under(d, l) = {l.rel})
diskRemove(d, l) == Drop(d, l.root, {l.rel})

\* fs::remove_all
removeAll(d, l) == IF Exists(d, l) THEN Drop(d, l.root, Under(d, l)) ELSE d

\* fs::resize_file: cut, or grow with zero bytes
resized(bytes, size) ==
  [i \in 1..size |-> IF i <= Len(bytes) THEN bytes[i] ELSE 0]

\* pwrite(buf, off): the bytes after the write, holes zero-filled
written(bytes, off, buf) ==
  LET n == IF Len(bytes) > off + Len(buf) THEN Len(bytes) ELSE off + Len(buf) IN
  [i \in 1..n |-> IF i > off /\ i <= off + Len(buf) THEN buf[i - off]
                  ELSE IF i <= Len(bytes) THEN bytes[i] ELSE 0]

\* pread(size, off)
readBytes(bytes, size, off) ==
  IF off >= Len(bytes) THEN <<>>
  ELSE SubSeq(bytes, off + 1, IF off + size < Len(bytes) THEN off + size ELSE Len(bytes))

(* --------------------------- scanning sources -------------------------- *)
\* The order of a recursive directory walk: a directory before its content,
\* siblings in an order the host chooses (rev: one order or its reverse).
Rank(t) == CASE t = "a" -> 1 [] t = "A" -> 2 [] t = "d" -> 3 [] t = "D" -> 4
             [] t = "meta.ini" -> 5 [] OTHER -> 6

Before(p, q, rev) ==
  \/ IsStrictPrefix(p, q)
  \/ \E i \in 1..Len(p) :
        /\ i <= Len(q) /\ SubSeq(p, 1, i - 1) = SubSeq(q, 1, i - 1)
        /\ p[i] # q[i]
        /\ (IF rev THEN Rank(p[i]) > Rank(q[i]) ELSE Rank(p[i]) < Rank(q[i]))

RECURSIVE ordered(_, _)
ordered(paths, rev) ==
  IF paths = {} THEN <<>>
  ELSE LET first == CHOOSE p \in paths : \A q \in paths \ {p} : Before(p, q, rev)
       IN <<first>> \o ordered(paths \ {first}, rev)

Walk(d, root, rev) ==
  IF root \notin DOMAIN d THEN <<>> ELSE ordered(DOMAIN d[root] \ {<<>>}, rev)

\* rel.generic_string(): the components joined by "/"
RECURSIVE genericString(_)
genericString(comps) ==
  IF Len(comps) <= 1 THEN comps
  ELSE <<Head(comps), "/">> \o genericString(Tail(comps))

\* scanDataDir: the cached base entries
scanDataDir(d, root) ==
  LET w == Walk(d, root, FALSE) IN
  [i \in DOMAIN w |->
     [relative_path |-> genericString(w[i]),
      is_dir |-> d[root][w[i]].kind = "dir",
      size |-> Len(d[root][w[i]].bytes)]]

NewTree == [nodes |-> <<>>, file_count |-> 0, dir_count |-> 1]

RECURSIVE addEntries(_, _, _, _, _)
addEntries(t, d, root, origin, w) ==
  IF w = <<>> THEN t
  ELSE LET rel == Head(w)
           components == splitPath(genericString(rel))
           next ==
             IF genericString(rel) = <<"meta.ini">> THEN t
             ELSE IF d[root][rel].kind = "dir"
               THEN [t EXCEPT !.nodes = insertDirectory(t.nodes, components),
                              !.dir_count = @ + 1]
               ELSE [t EXCEPT !.nodes = insertFile(t.nodes, components, Loc(root, rel),
                                                   Len(d[root][rel].bytes), origin, FALSE),
                              !.file_count = @ + 1]
       IN addEntries(next, d, root, origin, Tail(w))

addDirectoryToTree(t, d, root, origin, rev) ==
  IF ~Exists(d, Loc(root, <<>>)) THEN t
  ELSE addEntries(t, d, root, origin, Walk(d, root, rev))

RECURSIVE addCached(_, _)
addCached(t, cached) ==
  IF cached = <<>> THEN t
  ELSE LET cf == Head(cached)
           components == splitPath(cf.relative_path)
           next ==
             IF cf.is_dir
               THEN [t EXCEPT !.nodes = insertDirectory(t.nodes, components),
                              !.dir_count = @ + 1]
               ELSE [t EXCEPT !.nodes = insertFile(t.nodes, components,
                                                   Loc("rel", components), cf.size,
                                                   "_base_game", TRUE),
                              !.file_count = @ + 1]
       IN addCached(next, Tail(cached))

RECURSIVE addMods(_, _, _, _)
addMods(t, d, mods, rev) ==
  IF mods = <<>> THEN t
  ELSE addMods(addDirectoryToTree(t, d, Head(mods), Head(mods), rev), d, Tail(mods), rev)

\* a variant that lays the overwrite directory over the mods
buildDataDirVfs_overwriteLast(cached_files, d, mods, overwrite_dir, rev) ==
  addDirectoryToTree(addMods(addCached(NewTree, cached_files), d, mods, rev),
                     d, overwrite_dir, "Overwrite", rev)

buildDataDirVfs(cached_files, d, mods, overwrite_dir, rev) ==
  addMods(addDirectoryToTree(addCached(NewTree, cached_files), d, overwrite_dir,
                             "Overwrite", rev),
          d, mods, rev)

(* ---------------------------- the inode table --------------------------- *)
NewInodeTable ==
  [m_pathToInode |-> (<<>> :> 1), m_inodeToPath |-> (1 :> <<>>), m_nextInode |-> 2]

\* unordered_map::emplace: an existing key keeps its value
emplace(m, k, v) == IF k \in DOMAIN m THEN m ELSE [x \in DOMAIN m \cup {k} |->
                                                     IF x = k THEN v ELSE m[x]]
erase(m, gone) == [x \in DOMAIN m \ gone |-> m[x]]
assign(m, k, v) == [x \in DOMAIN m \cup {k} |-> IF x = k THEN v ELSE m[x]]

\* a variant that keys the table by the path as it is spelled
getOrCreate_asSpelled(t, path) ==
  LET key == canonicalizePath(path) IN
  IF key \in DOMAIN t.m_pathToInode
    THEN [table |-> t, ino |-> t.m_pathToInode[key]]
    ELSE [table |-> [m_pathToInode |-> emplace(t.m_pathToInode, key, t.m_nextInode),
                     m_inodeToPath |-> emplace(t.m_inodeToPath, t.m_nextInode,
                                               canonicalizePath(path)),
                     m_nextInode   |-> t.m_nextInode + 1],
          ino |-> t.m_nextInode]

getOrCreate(t, path) ==
  LET key == normalizeForLookup(path) IN
  IF key \in DOMAIN t.m_pathToInode
    THEN [table |-> t, ino |-> t.m_pathToInode[key]]
    ELSE [table |-> [m_pathToInode |-> emplace(t.m_pathToInode, key, t.m_nextInode),
                     m_inodeToPath |-> emplace(t.m_inodeToPath, t.m_nextInode,
                                               canonicalizePath(path)),
                     m_nextInode   |-> t.m_nextInode + 1],
          ino |-> t.m_nextInode]

getPath(t, ino) == IF ino \in DOMAIN t.m_inodeToPath THEN t.m_inodeToPath[ino] ELSE <<>>

RECURSIVE emplaceAll(_, _, _)
emplaceAll(m, keys, f) ==
  IF keys = {} THEN m
  ELSE LET k == CHOOSE k \in keys : TRUE
       IN emplaceAll(emplace(m, f[k].key, f[k].ino), keys \ {k}, f)

inodeRename(t, old_path, new_path) ==
  LET oldCanonical == canonicalizePath(old_path)
      newCanonical == canonicalizePath(new_path)
      oldKey == normalizeForLookup(oldCanonical)
      newKey == normalizeForLookup(newCanonical)
      has    == oldKey \in DOMAIN t.m_pathToInode
      p1     == IF has THEN emplace(erase(t.m_pathToInode, {oldKey}), newKey,
                                    t.m_pathToInode[oldKey])
                ELSE t.m_pathToInode
      i1     == IF has THEN assign(t.m_inodeToPath, t.m_pathToInode[oldKey], newCanonical)
                ELSE t.m_inodeToPath
      oldPrefix == IF oldKey = <<>> THEN oldKey ELSE oldKey \o <<"/">>
      desc   == {k \in DOMAIN p1 : (oldPrefix = <<>> \/ IsPrefix(oldPrefix, k)) /\ k # oldKey}
      moved  == [k \in desc |->
                  LET suffix == SubSeq(k, Len(oldPrefix) + 1, Len(k)) IN
                  [key |-> IF newKey = <<>> THEN suffix ELSE newKey \o <<"/">> \o suffix,
                   ino |-> p1[k]]]
      p2     == emplaceAll(erase(p1, desc), desc, moved)
      i2     == [i \in DOMAIN i1 |->
                  IF \E k \in desc : p1[k] = i
                    THEN newCanonical \o SubSeq(i1[i], Len(oldCanonical) + 1, Len(i1[i]))
                    ELSE i1[i]]
  IN [m_pathToInode |-> p2, m_inodeToPath |-> i2, m_nextInode |-> t.m_nextInode]

(* -------------------------- the overwrite manager ----------------------- *)
\* An OverwriteManager is [m_stagingDir, m_overwriteDir]: two roots of the disk.
\* Every operation returns [d: the disk after it, ok, path].
stagingPath(mgr, relative_path) ==
  Loc(mgr.m_stagingDir, splitPath(sanitizeRelative(relative_path)))

overwritePath(mgr, relative_path) ==
  Loc(mgr.m_overwriteDir, splitPath(sanitizeRelative(relative_path)))

NewOverwriteManager(d, staging_dir, overwrite_dir) ==
  createDirectories(createDirectories(d, Loc(staging_dir, <<>>)), Loc(overwrite_dir, <<>>))

Result(d, ok, path) == [d |-> d, ok |-> ok, path |-> path]

\* a copy that stops early leaves the bytes copied so far
Partial(bytes) == SubSeq(bytes, 1, Len(bytes) - 1)

\* fault: what the host makes go wrong in this call ("none", "src": the source
\* cannot be opened, "dest": the staging file cannot be created, "short": the
\* copy stops early)
copyOnWrite(d, mgr, source_path, relative_path, fault) ==
  LET dest == stagingPath(mgr, relative_path)
      d1   == createDirectories(d, ParentLoc(dest))
  IN IF Exists(d1, dest) THEN Result(d1, TRUE, dest)
     ELSE IF source_path # NoLoc /\ Exists(d1, source_path)
       THEN IF fault = "none" /\ copyFileOk(d1, source_path, dest)
              THEN Result(copyFile(d1, source_path, dest), TRUE, dest)
            ELSE IF fault = "short" /\ copyFileOk(d1, source_path, dest)
              THEN Result(Put(d1, dest, FileEntry(Partial(Bytes(d1, source_path)))),
                          FALSE, dest)
            ELSE Result(d1, FALSE, dest)
       ELSE IF fault # "dest" /\ canOpenForWrite(d1, dest)
              THEN Result(truncateOpen(d1, dest), TRUE, dest)
              ELSE Result(d1, TRUE, dest)

\* a variant that makes no copy and hands the source itself back
copyOnWriteFromFd_inPlace(d, mgr, dir_fd, relative_path, fault) ==
  Result(d, TRUE, Loc(dir_fd, splitPath(sanitizeRelative(relative_path))))

copyOnWriteFromFd(d, mgr, dir_fd, relative_path, fault) ==
  LET dest == stagingPath(mgr, relative_path)
      d1   == createDirectories(d, ParentLoc(dest))
      src  == Loc(dir_fd, splitPath(sanitizeRelative(relative_path)))
  IN IF Exists(d1, dest) THEN Result(d1, TRUE, dest)
     ELSE IF fault = "src" \/ ~Exists(d1, src)
       THEN IF canOpenForWrite(d1, dest)
              THEN Result(truncateOpen(d1, dest), TRUE, dest)
              ELSE Result(d1, TRUE, dest)
     ELSE IF fault = "dest" \/ ~canOpenForWrite(d1, dest)
       THEN Result(d1, FALSE, dest)
     ELSE IF IsDir(d1, src)
       THEN Result(truncateOpen(d1, dest), TRUE, dest)
     ELSE IF fault = "short"
       THEN Result(Put(d1, dest, FileEntry(Partial(Bytes(d1, src)))), TRUE, dest)
     ELSE Result(Put(d1, dest, FileEntry(Bytes(d1, src))), TRUE, dest)

writeFile(d, mgr, relative_path, fault) ==
  LET path == stagingPath(mgr, relative_path)
      d1   == createDirectories(d, ParentLoc(path))
  IN IF fault = "dest" \/ ~canOpenForWrite(d1, path) THEN Result(d1, FALSE, path)
     ELSE Result(truncateOpen(d1, path), TRUE, path)

\* a variant that prepares the destination before it looks for the source
mgrRename_mkdirFirst(d, mgr, old_relative, new_relative) ==
  LET d1   == createDirectories(d, stagingPath(mgr, new_relative))
      from == IF Exists(d, stagingPath(mgr, old_relative))
                THEN stagingPath(mgr, old_relative) ELSE overwritePath(mgr, old_relative)
      to   == IF Exists(d, stagingPath(mgr, old_relative))
                THEN stagingPath(mgr, new_relative) ELSE overwritePath(mgr, new_relative)
  IN IF ~Exists(d, from) THEN Result(d1, FALSE, from)
     ELSE IF renameOk(d1, from, to) THEN Result(diskRename(d1, from, to), TRUE, to)
     ELSE Result(d1, FALSE, to)

mgrRename(d, mgr, old_relative, new_relative) ==
  LET inStaging == Exists(d, stagingPath(mgr, old_relative))
      from == IF inStaging THEN stagingPath(mgr, old_relative)
              ELSE overwritePath(mgr, old_relative)
      to   == IF inStaging THEN stagingPath(mgr, new_relative)
              ELSE overwritePath(mgr, new_relative)
  IN IF ~Exists(d, from) THEN Result(d, FALSE, from)
     ELSE LET d1 == createDirectories(d, ParentLoc(to)) IN
          IF renameOk(d1, from, to) THEN Result(diskRename(d1, from, to), TRUE, to)
          ELSE Result(d1, FALSE, to)

\* a variant that reports a removal it has not made
removeFile_keep(d, mgr, relative_path) ==
  LET staged == stagingPath(mgr, relative_path)
      over   == overwritePath(mgr, relative_path)
  IN IF Exists(d, staged) THEN Result(d, TRUE, staged)
     ELSE IF Exists(d, over) THEN Result(d, TRUE, over)
     ELSE Result(d, FALSE, over)

removeFile(d, mgr, relative_path) ==
  LET staged == stagingPath(mgr, relative_path)
      over   == overwritePath(mgr, relative_path)
  IN IF Exists(d, staged)
       THEN IF removeOk(d, staged) /\ staged.rel # <<>>
              THEN Result(diskRemove(d, staged), TRUE, staged)
              ELSE Result(d, FALSE, staged)
     ELSE IF Exists(d, over)
       THEN IF removeOk(d, over) /\ over.rel # <<>>
              THEN Result(diskRemove(d, over), TRUE, over)
              ELSE Result(d, FALSE, over)
     ELSE Result(d, FALSE, over)

createDirectory(d, mgr, relative_path) ==
  LET path == stagingPath(mgr, relative_path) IN
  Result(createDirectories(d, path), createDirectoriesOk(d, path), path)

(* ------------------------- the filesystem adapter ----------------------- *)
\* A context c is [disk, tree, inodes, overwrite, open_files, next_fh,
\* backing_dir_fd]: the Mo2FsContext of the mount and the disk under it.
\* A handler returns [c: the context after the call, r: the reply].
O_RDONLY == 0
O_WRONLY == 1
O_RDWR == 2

Reply(op, err) ==
  [op |-> op, err |-> err, ino |-> 0, fh |-> 0, size |-> 0, is_dir |-> FALSE,
   data |-> <<>>, path |-> <<>>]

Done(c, r) == [c |-> c, r |-> r]

\* a relative path opened without the backing handle is looked up in the
\* working directory of the process
AbsLoc(l) == IF l.root = "rel" THEN Loc("cwd", l.rel) ELSE l

inodeToPath(c, ino) ==
  [ok   |-> ino = 1 \/ getPath(c.inodes, ino) # <<>>,
   path |-> IF ino = 1 THEN <<>> ELSE getPath(c.inodes, ino)]

snapshotForPath(c, path) ==
  LET res == resolve(c.tree.nodes, splitPath(path)) IN
  [found        |-> res.found,
   is_directory |-> res.found /\ res.node.is_directory,
   is_backing   |-> res.found /\ ~res.node.is_directory /\ res.node.is_backing,
   size         |-> IF res.found /\ ~res.node.is_directory THEN res.node.size ELSE 0,
   real_path    |-> IF res.found /\ ~res.node.is_directory THEN res.node.real_path
                    ELSE NoLoc]

EntryReply(op, ino, snap, path) ==
  [Reply(op, "OK") EXCEPT !.ino = ino, !.is_dir = snap.is_directory,
                          !.size = snap.size, !.path = path]

isWritableOpen(flags) == (flags % 2 = 1) \/ ((flags \div 2) % 2 = 1)

\* fs::file_size, 0 when it fails
fileSizeOrZero(d, l) == IF IsFile(d, l) THEN Len(Bytes(d, l)) ELSE 0

\* a variant that leaves the tree as it is
updateFileNode_skip(c, relative, realPath, origin) == c

updateFileNode(c, relative, realPath, origin) ==
  [c EXCEPT !.tree.nodes =
     insertFile(c.tree.nodes, splitPath(relative), realPath,
                fileSizeOrZero(c.disk, AbsLoc(realPath)), origin, FALSE)]

OpenFile(real_path, writable, is_backing, relative_path) ==
  [real_path |-> real_path, writable |-> writable, is_backing |-> is_backing,
   relative_path |-> relative_path]

addHandle(c, of) ==
  [c EXCEPT !.open_files = assign(c.open_files, c.next_fh, of),
            !.next_fh = c.next_fh + 1]

\* a variant that hands out the inode before it knows the path resolves
mo2_lookup_eager(c, parent, name) ==
  LET pp        == inodeToPath(c, parent)
      childPath == joinPath(pp.path, name)
      snap      == snapshotForPath(c, childPath)
      got       == getOrCreate(c.inodes, childPath)
      c1        == [c EXCEPT !.inodes = got.table]
  IN IF ~pp.ok THEN Done(c1, Reply("lookup", "ENOENT"))
     ELSE IF ~snap.found THEN Done(c1, [Reply("lookup", "ENOENT") EXCEPT !.path = childPath])
     ELSE Done(c1, EntryReply("lookup", got.ino, snap, childPath))

mo2_lookup(c, parent, name) ==
  LET pp        == inodeToPath(c, parent)
      childPath == joinPath(pp.path, name)
      snap      == snapshotForPath(c, childPath)
      got       == getOrCreate(c.inodes, childPath)
  IN IF ~pp.ok THEN Done(c, Reply("lookup", "ENOENT"))
     ELSE IF ~snap.found THEN Done(c, [Reply("lookup", "ENOENT") EXCEPT !.path = childPath])
     ELSE Done([c EXCEPT !.inodes = got.table],
               EntryReply("lookup", got.ino, snap, childPath))

mo2_getattr(c, ino) ==
  LET ip   == inodeToPath(c, ino)
      snap == snapshotForPath(c, ip.path)
  IN IF ino = 1 THEN Done(c, [Reply("getattr", "OK") EXCEPT !.ino = 1, !.is_dir = TRUE])
     ELSE IF ~ip.ok \/ ~snap.found THEN Done(c, Reply("getattr", "ENOENT"))
     ELSE Done(c, EntryReply("getattr", ino, snap, ip.path))

listChildrenSnapshot(c, path) ==
  LET res == resolve(c.tree.nodes, splitPath(path))
      ok  == res.found /\ res.node.is_directory
  IN [ok |-> ok,
      children |-> IF ok THEN listChildren(c.tree.nodes, Keys(splitPath(path))) ELSE {}]

\* the orders in which an unordered_map may hand out the children
Orders(children) ==
  {o \in [1..Cardinality(children) -> children] :
     \A i, j \in DOMAIN o : o[i] = o[j] => i = j}

\* the loop of mo2_readdir under inode_mutex: an inode for each child, in
\* the order of the listing
RECURSIVE childEntries(_, _, _, _)
childEntries(t, path, order, i) ==
  IF i > Len(order) THEN [table |-> t, entries |-> <<>>]
  ELSE LET got  == getOrCreate(t, joinPath(path, <<order[i][1]>>))
           rest == childEntries(got.table, path, order, i + 1)
       IN [table   |-> rest.table,
           entries |-> <<[ino |-> got.ino, name |-> order[i][1], isDir |-> order[i][2]]>>
                         \o rest.entries]

\* fuse_add_direntry: the bytes an entry takes in the buffer, the header and
\* the name padded to eight bytes
direntSize(name) == 24 + 8 * ((Len(name) + 7) \div 8)

\* a variant that tags an entry with its own index
RECURSIVE addDirentries_tagSelf(_, _, _, _)
addDirentries_tagSelf(entries, i, size, used) ==
  IF i > Len(entries) THEN <<>>
  ELSE LET ent == direntSize(entries[i].name) IN
       IF ent > size - used THEN <<>>
       ELSE <<[ino |-> entries[i].ino, name |-> entries[i].name,
               isDir |-> entries[i].isDir, off |-> i - 1]>>
              \o addDirentries_tagSelf(entries, i + 1, size, used + ent)

\* a variant that starts over when the offset is past the last entry
RECURSIVE addDirentries_wrap(_, _, _, _)
addDirentries_wrap(entries, i, size, used) ==
  IF i > Len(entries)
    THEN IF used = 0
           THEN <<[ino |-> entries[1].ino, name |-> entries[1].name,
                   isDir |-> entries[1].isDir, off |-> 1]>>
           ELSE <<>>
  ELSE LET ent == direntSize(entries[i].name) IN
       IF ent > size - used THEN <<>>
       ELSE <<[ino |-> entries[i].ino, name |-> entries[i].name,
               isDir |-> entries[i].isDir, off |-> i]>>
              \o addDirentries_wrap(entries, i + 1, size, used + ent)

\* the serialization loop: entries[i] is the entry of index i - 1 of the
\* code and is tagged with the offset i, where the listing resumes
RECURSIVE addDirentries(_, _, _, _)
addDirentries(entries, i, size, used) ==
  IF i > Len(entries) THEN <<>>
  ELSE LET ent == direntSize(entries[i].name) IN
       IF ent > size - used THEN <<>>
       ELSE <<[ino |-> entries[i].ino, name |-> entries[i].name,
               isDir |-> entries[i].isDir, off |-> i]>>
              \o addDirentries(entries, i + 1, size, used + ent)

\* size: the bytes of the host's buffer
mo2_readdir(c, ino, size, off, order) ==
  LET ip      == inodeToPath(c, ino)
      ls      == listChildrenSnapshot(c, ip.path)
      kids    == childEntries(c.inodes, ip.path, order, 1)
      entries == <<[ino |-> ino, name |-> ".", isDir |-> TRUE],
                   [ino |-> 1, name |-> "..", isDir |-> TRUE]>> \o kids.entries
  IN IF off < 0 THEN Done(c, Reply("readdir", "EINVAL"))
     ELSE IF ~ip.ok THEN Done(c, Reply("readdir", "ENOENT"))
     ELSE IF ~ls.ok THEN Done(c, [Reply("readdir", "ENOTDIR") EXCEPT !.path = ip.path])
     ELSE Done([c EXCEPT !.inodes = kids.table],
               [Reply("readdir", "OK") EXCEPT !.ino = ino, !.path = ip.path,
                                              !.data = addDirentries(entries, off + 1, size, 0)])

\* a variant that stages the file whatever the flags are
mo2_open_stageAlways(c, ino, flags, fault) ==
  LET ip       == inodeToPath(c, ino)
      path     == ip.path
      snap     == snapshotForPath(c, path)
      writable == isWritableOpen(flags)
      cow      == IF snap.is_backing /\ c.backing_dir_fd # "none"
                    THEN copyOnWriteFromFd(c.disk, c.overwrite, c.backing_dir_fd, path, fault)
                    ELSE copyOnWrite(c.disk, c.overwrite, AbsLoc(snap.real_path), path, fault)
      c1       == [c EXCEPT !.disk = cow.d]
      c2       == updateFileNode(c1, path, cow.path, "Staging")
      of       == IF writable THEN OpenFile(cow.path, TRUE, FALSE, path)
                  ELSE OpenFile(snap.real_path, FALSE, snap.is_backing, path)
  IN IF ~ip.ok \/ ~snap.found \/ snap.is_directory THEN Done(c, Reply("open", "ENOENT"))
     ELSE IF ~cow.ok
       THEN Done(c1, [Reply("open", "EIO") EXCEPT !.path = path, !.ino = ino])
     ELSE Done(addHandle(c2, of),
               [Reply("open", "OK") EXCEPT !.fh = c.next_fh, !.path = path, !.ino = ino])

mo2_open(c, ino, flags, fault) ==
  LET ip       == inodeToPath(c, ino)
      path     == ip.path
      snap     == snapshotForPath(c, path)
      writable == isWritableOpen(flags)
      cow      == IF snap.is_backing /\ c.backing_dir_fd # "none"
                    THEN copyOnWriteFromFd(c.disk, c.overwrite, c.backing_dir_fd, path, fault)
                    ELSE copyOnWrite(c.disk, c.overwrite, AbsLoc(snap.real_path), path, fault)
      c1       == [c EXCEPT !.disk = cow.d]
      c2       == updateFileNode(c1, path, cow.path, "Staging")
      of       == IF writable THEN OpenFile(cow.path, TRUE, FALSE, path)
                  ELSE OpenFile(snap.real_path, FALSE, snap.is_backing, path)
  IN IF ~ip.ok \/ ~snap.found \/ snap.is_directory THEN Done(c, Reply("open", "ENOENT"))
     ELSE IF writable /\ ~cow.ok
       THEN Done(c1, [Reply("open", "EIO") EXCEPT !.path = path, !.ino = ino])
     ELSE Done(addHandle(IF writable THEN c2 ELSE c, of),
               [Reply("open", "OK") EXCEPT !.fh = c.next_fh, !.path = path, !.ino = ino])

mo2_read(c, fh, size, off) ==
  IF fh \notin DOMAIN c.open_files THEN Done(c, Reply("read", "EBADF"))
  ELSE LET of  == c.open_files[fh]
           src == IF of.is_backing /\ c.backing_dir_fd # "none" /\ of.real_path.root = "rel"
                    THEN Loc(c.backing_dir_fd, of.real_path.rel)
                    ELSE AbsLoc(of.real_path)
       IN IF ~IsFile(c.disk, src)
            THEN Done(c, [Reply("read", "EIO") EXCEPT !.fh = fh])
            ELSE Done(c, [Reply("read", "OK") EXCEPT
                            !.fh = fh, !.data = readBytes(Bytes(c.disk, src), size, off)])

mo2_write(c, fh, buf, off) ==
  IF fh \notin DOMAIN c.open_files THEN Done(c, Reply("write", "EBADF"))
  ELSE LET of   == c.open_files[fh]
           at   == AbsLoc(of.real_path)
           \* std::fstream(in | out), then (out) to create what is missing
           d1   == IF IsFile(c.disk, at) THEN c.disk
                   ELSE IF canOpenForWrite(c.disk, at) THEN truncateOpen(c.disk, at)
                   ELSE c.disk
           d2   == Put(d1, at, FileEntry(written(Bytes(d1, at), off, buf)))
           c2   == updateFileNode([c EXCEPT !.disk = d2], of.relative_path,
                                  of.real_path, "Staging")
       IN IF ~of.writable THEN Done(c, [Reply("write", "EACCES") EXCEPT !.fh = fh])
          ELSE IF ~IsFile(d1, at) THEN Done(c, [Reply("write", "EIO") EXCEPT !.fh = fh])
          ELSE Done(c2, [Reply("write", "OK") EXCEPT
                           !.fh = fh, !.size = Len(buf), !.path = of.relative_path])

mo2_create(c, parent, name, fault) ==
  LET pp       == inodeToPath(c, parent)
      relative == joinPath(pp.path, name)
      wf       == writeFile(c.disk, c.overwrite, relative, fault)
      c1       == [c EXCEPT !.disk = wf.d]
      c2       == [updateFileNode(c1, relative, wf.path, "Staging")
                     EXCEPT !.tree.file_count = @ + 1]
      got      == getOrCreate(c2.inodes, relative)
      c3       == [c2 EXCEPT !.inodes = got.table]
      snap     == snapshotForPath(c3, relative)
  IN IF ~pp.ok THEN Done(c, Reply("create", "ENOENT"))
     ELSE IF ~wf.ok THEN Done(c1, [Reply("create", "EIO") EXCEPT !.path = relative])
     ELSE IF ~snap.found \/ snap.is_directory
       THEN Done(c3, [Reply("create", "EIO") EXCEPT !.path = relative])
     ELSE Done(addHandle(c3, OpenFile(wf.path, TRUE, FALSE, relative)),
               [EntryReply("create", got.ino, snap, relative) EXCEPT !.fh = c.next_fh])

mo2_rename(c, parent, name, newparent, newname, flags) ==
  LET pp          == inodeToPath(c, parent)
      np          == inodeToPath(c, newparent)
      oldRelative == joinPath(pp.path, name)
      newRelative == joinPath(np.path, newname)
      oldSnap     == snapshotForPath(c, oldRelative)
      rn          == mgrRename(c.disk, c.overwrite, oldRelative, newRelative)
      staged      == stagingPath(c.overwrite, newRelative)
      over        == overwritePath(c.overwrite, newRelative)
      real        == IF Exists(rn.d, staged) THEN staged ELSE over
      removed     == removeFromTree(c.tree.nodes, splitPath(oldRelative)).nodes
      nodes2      == IF oldSnap.is_directory
                       THEN insertDirectory(removed, splitPath(newRelative))
                       ELSE insertFile(removed, splitPath(newRelative), real,
                                       oldSnap.size, "Staging", FALSE)
  IN IF flags # 0 THEN Done(c, Reply("rename", "EINVAL"))
     ELSE IF ~pp.ok \/ ~np.ok THEN Done(c, Reply("rename", "ENOENT"))
     ELSE IF ~oldSnap.found
       THEN Done(c, [Reply("rename", "ENOENT") EXCEPT !.path = oldRelative])
     ELSE IF ~rn.ok
       THEN Done([c EXCEPT !.disk = rn.d],
                 [Reply("rename", "EACCES") EXCEPT !.path = oldRelative])
     ELSE Done([c EXCEPT !.disk = rn.d, !.tree.nodes = nodes2,
                         !.inodes = inodeRename(c.inodes, oldRelative, newRelative)],
               [Reply("rename", "OK") EXCEPT !.path = oldRelative, !.data = newRelative])

\* a variant that resizes the file and leaves its node as it was
mo2_setattr_noUpdate(c, ino, size, to_set_size, fi, fault) ==
  LET ip      == inodeToPath(c, ino)
      path    == ip.path
      byFh    == fi # 0 /\ fi \in DOMAIN c.open_files
      snap0   == snapshotForPath(c, path)
      target0 == IF byFh THEN c.open_files[fi].real_path ELSE snap0.real_path
      backing == IF byFh THEN c.open_files[fi].is_backing ELSE snap0.is_backing
      staged  == stagingPath(c.overwrite, path)
      needCow == target0 # staged
      cow     == IF backing /\ c.backing_dir_fd # "none"
                   THEN copyOnWriteFromFd(c.disk, c.overwrite, c.backing_dir_fd, path, fault)
                   ELSE copyOnWrite(c.disk, c.overwrite, AbsLoc(target0), path, fault)
      target  == IF needCow THEN cow.path ELSE target0
      c1      == IF needCow THEN [c EXCEPT !.disk = cow.d] ELSE c
      c2      == IF needCow /\ byFh
                   THEN [c1 EXCEPT !.open_files[fi].real_path = target,
                                   !.open_files[fi].writable = TRUE]
                   ELSE c1
      at      == AbsLoc(target)
      c3      == [c2 EXCEPT !.disk = Put(c2.disk, at,
                                         FileEntry(resized(Bytes(c2.disk, at), size)))]
      c4      == c3
      last(cx) == LET snap == snapshotForPath(cx, path) IN
                  IF ~snap.found THEN Done(cx, Reply("setattr", "ENOENT"))
                  ELSE Done(cx, EntryReply("setattr", ino, snap, path))
  IN IF ino = 1 THEN Done(c, [Reply("setattr", "OK") EXCEPT !.ino = 1, !.is_dir = TRUE])
     ELSE IF ~ip.ok THEN Done(c, Reply("setattr", "ENOENT"))
     ELSE IF ~to_set_size THEN last(c)
     ELSE IF ~byFh /\ (~snap0.found \/ snap0.is_directory)
       THEN Done(c, Reply("setattr", "ENOENT"))
     ELSE IF needCow /\ ~cow.ok
       THEN Done(c1, [Reply("setattr", "EIO") EXCEPT !.path = path])
     ELSE IF ~IsFile(c2.disk, at)
       THEN Done(c2, [Reply("setattr", "EIO") EXCEPT !.path = path])
     ELSE last(c4)

\* fi: the handle the host passes along, 0 when it passes none
mo2_setattr(c, ino, size, to_set_size, fi, fault) ==
  LET ip      == inodeToPath(c, ino)
      path    == ip.path
      byFh    == fi # 0 /\ fi \in DOMAIN c.open_files
      snap0   == snapshotForPath(c, path)
      target0 == IF byFh THEN c.open_files[fi].real_path ELSE snap0.real_path
      backing == IF byFh THEN c.open_files[fi].is_backing ELSE snap0.is_backing
      staged  == stagingPath(c.overwrite, path)
      needCow == target0 # staged
      cow     == IF backing /\ c.backing_dir_fd # "none"
                   THEN copyOnWriteFromFd(c.disk, c.overwrite, c.backing_dir_fd, path, fault)
                   ELSE copyOnWrite(c.disk, c.overwrite, AbsLoc(target0), path, fault)
      target  == IF needCow THEN cow.path ELSE target0
      c1      == IF needCow THEN [c EXCEPT !.disk = cow.d] ELSE c
      c2      == IF needCow /\ byFh
                   THEN [c1 EXCEPT !.open_files[fi].real_path = target,
                                   !.open_files[fi].writable = TRUE]
                   ELSE c1
      at      == AbsLoc(target)
      c3      == [c2 EXCEPT !.disk = Put(c2.disk, at,
                                         FileEntry(resized(Bytes(c2.disk, at), size)))]
      c4      == updateFileNode(c3, path, target, "Staging")
      last(cx) == LET snap == snapshotForPath(cx, path) IN
                  IF ~snap.found THEN Done(cx, Reply("setattr", "ENOENT"))
                  ELSE Done(cx, EntryReply("setattr", ino, snap, path))
  IN IF ino = 1 THEN Done(c, [Reply("setattr", "OK") EXCEPT !.ino = 1, !.is_dir = TRUE])
     ELSE IF ~ip.ok THEN Done(c, Reply("setattr", "ENOENT"))
     ELSE IF ~to_set_size THEN last(c)
     ELSE IF ~byFh /\ (~snap0.found \/ snap0.is_directory)
       THEN Done(c, Reply("setattr", "ENOENT"))
     ELSE IF needCow /\ ~cow.ok
       THEN Done(c1, [Reply("setattr", "EIO") EXCEPT !.path = path])
     ELSE IF ~IsFile(c2.disk, at)
       THEN Done(c2, [Reply("setattr", "EIO") EXCEPT !.path = path])
     ELSE last(c4)

\* a variant that edits the tree whatever the manager reports
mo2_unlink_unchecked(c, parent, name) ==
  LET pp       == inodeToPath(c, parent)
      relative == joinPath(pp.path, name)
      rm       == removeFile(c.disk, c.overwrite, relative)
      rt       == removeFromTree(c.tree.nodes, splitPath(relative))
  IN IF ~pp.ok THEN Done(c, Reply("unlink", "ENOENT"))
     ELSE Done([c EXCEPT !.disk = rm.d, !.tree.nodes = rt.nodes,
                         !.tree.file_count =
                           IF rt.removed /\ @ > 0 THEN @ - 1 ELSE @],
               [Reply("unlink", "OK") EXCEPT !.path = relative])

mo2_unlink(c, parent, name) ==
  LET pp       == inodeToPath(c, parent)
      relative == joinPath(pp.path, name)
      rm       == removeFile(c.disk, c.overwrite, relative)
      rt       == removeFromTree(c.tree.nodes, splitPath(relative))
  IN IF ~pp.ok THEN Done(c, Reply("unlink", "ENOENT"))
     ELSE IF ~rm.ok
       THEN Done(c, [Reply("unlink", "EACCES") EXCEPT !.path = relative])
     ELSE Done([c EXCEPT !.disk = rm.d, !.tree.nodes = rt.nodes,
                         !.tree.file_count =
                           IF rt.removed /\ @ > 0 THEN @ - 1 ELSE @],
               [Reply("unlink", "OK") EXCEPT !.path = relative])

mo2_mkdir(c, parent, name) ==
  LET pp       == inodeToPath(c, parent)
      relative == joinPath(pp.path, name)
      mk       == createDirectory(c.disk, c.overwrite, relative)
      c1       == [c EXCEPT !.disk = mk.d,
                            !.tree.nodes = insertDirectory(@, splitPath(relative)),
                            !.tree.dir_count = @ + 1]
      got      == getOrCreate(c1.inodes, relative)
      c2       == [c1 EXCEPT !.inodes = got.table]
      snap     == snapshotForPath(c2, relative)
  IN IF ~pp.ok THEN Done(c, Reply("mkdir", "ENOENT"))
     ELSE IF ~mk.ok THEN Done(c, [Reply("mkdir", "EIO") EXCEPT !.path = relative])
     ELSE IF ~snap.found THEN Done(c2, [Reply("mkdir", "EIO") EXCEPT !.path = relative])
     ELSE Done(c2, EntryReply("mkdir", got.ino, snap, relative))

mo2_release(c, fh) ==
  Done([c EXCEPT !.open_files = erase(@, {fh})], [Reply("release", "OK") EXCEPT !.fh = fh])

(* --------------------------- the mount controller ----------------------- *)
\* A controller k is the FuseConnector: [m_mounted, m_overwriteDir,
\* m_stagingDir, m_lastMods, m_baseFileCache, m_backingFd, m_dataDirPath,
\* m_mountPoint, m_session, m_fuseThread].  m_session is "none", "running" or, once it
\* was asked to exit, "exited"; m_fuseThread is "none" or "running".
\* overwrite's parent + "/VFS_staging": st beside ov, st2 beside ov2
StagingOf(overwrite_dir) == IF overwrite_dir = "ov2" THEN "st2" ELSE "st"

NewConnector ==
  [m_mounted |-> FALSE, m_overwriteDir |-> "none", m_stagingDir |-> "none",
   m_lastMods |-> <<>>, m_baseFileCache |-> <<>>, m_backingFd |-> "none",
   m_dataDirPath |-> "none", m_mountPoint |-> "none", m_session |-> "none",
   m_fuseThread |-> "none"]

NoContext ==
  [tree |-> NewTree, inodes |-> NewInodeTable,
   overwrite |-> [m_stagingDir |-> "none", m_overwriteDir |-> "none"],
   open_files |-> <<>>, next_fh |-> 1, backing_dir_fd |-> "none"]

\* what the host does to one staged file during the fold: "none" (the rename
\* works), "rename" (the rename fails, the copy works), "both" (both fail)
RECURSIVE foldEntries(_, _, _, _, _)
foldEntries(d, staging, overwrite, w, faults) ==
  IF w = <<>> THEN d
  ELSE LET rel  == Head(w)
           from == Loc(staging, rel)
           dest == Loc(overwrite, rel)
           d1   == createDirectories(d, ParentLoc(dest))
           next ==
             IF ~Exists(d, from) THEN d
             ELSE IF IsDir(d, from) THEN createDirectories(d, dest)
             ELSE IF faults[rel] = "none" /\ renameOk(d1, from, dest)
               THEN Put(Drop(d1, staging, {rel}), dest, d1[staging][rel])
             ELSE IF faults[rel] # "both" /\ copyFileOk(d1, from, dest)
               THEN Drop(copyFile(d1, from, dest), staging, {rel})
             ELSE d1
       IN foldEntries(next, staging, overwrite, Tail(w), faults)

\* a variant that empties the staging directory without moving anything
flushStaging_discard(k, d, faults) ==
  IF k.m_stagingDir = "none" \/ k.m_overwriteDir = "none" THEN d
  ELSE removeAll(d, Loc(k.m_stagingDir, <<>>))

flushStaging(k, d, faults) ==
  IF k.m_stagingDir = "none" \/ k.m_overwriteDir = "none" THEN d
  ELSE IF ~Exists(d, Loc(k.m_stagingDir, <<>>)) THEN d
  ELSE removeAll(foldEntries(d, k.m_stagingDir, k.m_overwriteDir,
                             Walk(d, k.m_stagingDir, FALSE), faults),
                 Loc(k.m_stagingDir, <<>>))

NoFaults(d, staging) ==
  [rel \in (IF staging \in DOMAIN d THEN DOMAIN d[staging] ELSE {}) |-> "none"]

\* FuseConnector::unmount: [k, c] after it (c carries the disk)
unmount(k, c, faults) ==
  IF ~k.m_mounted THEN [k |-> k, c |-> c]
  ELSE [k |-> [k EXCEPT !.m_backingFd = "none", !.m_mounted = FALSE,
                        !.m_session = "none", !.m_fuseThread = "none"],
        c |-> NoContext @@ [disk |-> flushStaging(k, c.disk, faults)]]

\* what the host answers during one mount: whether open() of the data
\* directory gives a handle, whether the target is still in the mount list
\* after tryCleanupStaleMount, whether fuse_session_new and
\* fuse_session_mount succeed
HostFine == [open |-> TRUE, stale |-> FALSE, session_new |-> TRUE, session_mount |-> TRUE]
HostAnswers ==
  [open : BOOLEAN, stale : BOOLEAN, session_new : BOOLEAN, session_mount : BOOLEAN]

\* FuseConnector::mount under the host's answers h: [k, c, ok], ok FALSE
\* where the code throws FuseConnectorException
mountUnder(k, c, overwrite_dir, data_dir, mods, rev, h) ==
  LET u   == unmount(k, c, NoFaults(c.disk, k.m_stagingDir))
      k1  == [u.k EXCEPT !.m_overwriteDir = overwrite_dir, !.m_lastMods = mods,
                         !.m_dataDirPath = data_dir, !.m_mountPoint = data_dir]
      st  == StagingOf(overwrite_dir)
      d1  == createDirectories(createDirectories(u.c.disk, Loc(st, <<>>)),
                               Loc(overwrite_dir, <<>>))
      bfc == scanDataDir(d1, data_dir)
      k2  == [k1 EXCEPT !.m_stagingDir = st, !.m_baseFileCache = bfc]
      d2  == NewOverwriteManager(d1, st, overwrite_dir)
      c2  == [disk |-> d2,
              tree |-> buildDataDirVfs(bfc, d1, mods, overwrite_dir, rev),
              inodes |-> NewInodeTable,
              overwrite |-> [m_stagingDir |-> st, m_overwriteDir |-> overwrite_dir],
              open_files |-> <<>>, next_fh |-> 1, backing_dir_fd |-> data_dir]
  IN IF ~Exists(u.c.disk, Loc(data_dir, <<>>))
       THEN [k |-> k1, c |-> u.c, ok |-> FALSE]
     ELSE IF ~h.open
       THEN [k |-> k2, c |-> [u.c EXCEPT !.disk = d1], ok |-> FALSE]
     ELSE IF ~h.session_new \/ ~h.session_mount
       THEN [k |-> k2, c |-> c2, ok |-> FALSE]
     ELSE [k |-> [k2 EXCEPT !.m_mounted = TRUE, !.m_backingFd = data_dir,
                            !.m_session = "running", !.m_fuseThread = "running"],
           c |-> c2, ok |-> TRUE]

\* FuseConnector::mount on an existing data directory, the host session
\* created and attached without error
mount(k, c, overwrite_dir, data_dir, mods, rev) ==
  LET u   == unmount(k, c, NoFaults(c.disk, k.m_stagingDir))
      st  == StagingOf(overwrite_dir)
      d1  == createDirectories(createDirectories(u.c.disk, Loc(st, <<>>)),
                               Loc(overwrite_dir, <<>>))
      bfc == scanDataDir(d1, data_dir)
      d2  == NewOverwriteManager(d1, st, overwrite_dir)
  IN [k |-> [m_mounted |-> TRUE, m_overwriteDir |-> overwrite_dir,
             m_stagingDir |-> st, m_lastMods |-> mods, m_baseFileCache |-> bfc,
             m_backingFd |-> data_dir, m_dataDirPath |-> data_dir,
             m_mountPoint |-> data_dir,
             m_session |-> "running", m_fuseThread |-> "running"],
      c |-> [disk |-> d2,
             tree |-> buildDataDirVfs(bfc, d1, mods, overwrite_dir, rev),
             inodes |-> NewInodeTable,
             overwrite |-> [m_stagingDir |-> st, m_overwriteDir |-> overwrite_dir],
             open_files |-> <<>>, next_fh |-> 1, backing_dir_fd |-> data_dir]]

\* FuseConnector::rebuild
rebuild(k, c, mods, overwrite_dir, rev) ==
  IF ~k.m_mounted THEN [k |-> k, c |-> c]
  ELSE LET k1 == [k EXCEPT !.m_overwriteDir = overwrite_dir, !.m_lastMods = mods] IN
       [k |-> k1,
        c |-> [c EXCEPT !.tree = buildDataDirVfs(k.m_baseFileCache, c.disk, mods,
                                                 overwrite_dir, rev)]]

\* FuseConnector::flushStagingLive
flushStagingLive(k, c, faults, rev) ==
  IF ~k.m_mounted THEN [k |-> k, c |-> c]
  ELSE LET d1 == flushStaging(k, c.disk, faults)
           d2 == createDirectories(d1, Loc(k.m_stagingDir, <<>>))
           t  == buildDataDirVfs(k.m_baseFileCache, d2, k.m_lastMods,
                                 k.m_overwriteDir, rev)
           d3 == NewOverwriteManager(d2, k.m_stagingDir, k.m_overwriteDir)
       IN [k |-> k,
           c |-> [c EXCEPT !.disk = d3, !.tree = t,
                           !.overwrite = [m_stagingDir |-> k.m_stagingDir,
                                          m_overwriteDir |-> k.m_overwriteDir]]]

(* ------------------------------ the state ------------------------------ *)
VARIABLES
  disk,     \* the host's directories: base, mods, overwrite, staging, cwd
  ctx,      \* the Mo2FsContext of the live mount (NoContext when none)
  ctl,      \* the FuseConnector
  reply,    \* the reply to the last operation
  fault,    \* what the host made go wrong in the last operation
  nops,     \* operations so far
  thr,      \* where each thread is in the handler it runs
  lock,     \* tree_mutex: the thread holding it exclusively, the threads sharing
            \* it; inode_mutex and open_files_mutex: the thread holding each
  hist      \* what the host has been told so far

vars == <<disk, ctx, ctl, reply, fault, nops, thr, lock, hist>>

Cur == ctx @@ [disk |-> disk]
CtxOf(c) == [f \in DOMAIN c \ {"disk"} |-> c[f]]

\* the stock data directory, two mods, the working directory
EmptyDir == (<<>> :> DirEntry)
BaseDir == EmptyDir @@ (<<"a">> :> FileEntry(<<5>>)) @@ (<<"d">> :> DirEntry)
             @@ (<<"d", "a">> :> FileEntry(<<5, 5>>))
ModA == EmptyDir @@ (<<"A">> :> FileEntry(<<6>>)) @@ (<<"meta.ini">> :> FileEntry(<<>>))
ModB == EmptyDir @@ (<<"a">> :> FileEntry(<<7, 7>>))

World(ov) ==
  [base |-> BaseDir, mA |-> ModA, mB |-> ModB, ov |-> ov, st |-> <<>>, cwd |-> EmptyDir]

\* what the controller mounts with, and what it rebuilds with
MountLists == {<<>>, <<"mA">>}
ModLists == {<<>>, <<"mA">>, <<"mA", "mB">>}
\* the names the host asks for, and the paths (as keys) they may make up
Names == {<<"a">>, <<"A">>, <<"d">>}
HostPaths == {<<"a">>, <<"d">>, <<"d", "a">>}
Inos == DOMAIN ctx.inodes.m_inodeToPath
Handles == DOMAIN ctx.open_files

\* the host's worker threads and the thread of the controller
Workers == {"w1", "w2"}
Threads == Workers \cup {"gui"}
NoSnap == [found |-> FALSE, is_directory |-> FALSE, is_backing |-> FALSE, size |-> 0,
           real_path |-> NoLoc]
\* a thread: the handler it runs, the step it is at, the handler's arguments
\* and locals, the last reply it sent
IdleThread ==
  [op |-> "idle", pc |-> 0, path |-> <<>>, newpath |-> <<>>, fh |-> 0, off |-> 0,
   mods |-> <<>>, real |-> NoLoc, size |-> 0, snap |-> NoSnap, tree |-> NewTree,
   need |-> 0, ino |-> 0,
   out |-> Reply("none", "OK")]
NewLock ==
  [writer |-> "none", readers |-> {}, inode_mutex |-> "none", open_files_mutex |-> "none"]
\* acked: the furthest end of a write the host has been told succeeded;
\* cell: the mount point kept for the crash handler, "none" when cleared
NewHist == [acked |-> 0, cell |-> "none"]

\* a fault is [cow: what goes wrong in a copy-on-write or a create, fold:
\* what goes wrong for each staged file of a flush]
NoFault == [cow |-> "none", fold |-> <<>>]

Init ==
  /\ disk = World(<<>>)
  /\ ctx = NoContext
  /\ ctl = NewConnector
  /\ reply = Reply("none", "OK")
  /\ fault = NoFault
  /\ nops = 0
  /\ thr = [t \in Threads |-> IdleThread]
  /\ lock = NewLock
  /\ hist = NewHist

\* an adapter call under the fault f
ApplyUnder(res, f) ==
  /\ disk' = res.c.disk
  /\ ctx' = CtxOf(res.c)
  /\ reply' = res.r
  /\ fault' = f
  /\ nops' = nops + 1
  /\ UNCHANGED <<ctl, thr, lock, hist>>

Apply(res) == ApplyUnder(res, NoFault)

\* a controller call under the faults f
ControlUnder(res, op, f) ==
  /\ disk' = res.c.disk
  /\ ctx' = CtxOf(res.c)
  /\ ctl' = res.k
  /\ reply' = Reply(op, "OK")
  /\ fault' = f
  /\ nops' = nops + 1
  /\ UNCHANGED <<thr, lock, hist>>

Control(res, op) == ControlUnder(res, op, NoFault)

Live == ctl.m_mounted /\ nops < MaxOps
HostOk(parent, name) ==
  Keys(splitPath(joinPath(inodeToPath(Cur, parent).path, name))) \in HostPaths

Mount ==
  /\ ~ctl.m_mounted
  /\ \E mods \in MountLists, rev \in BOOLEAN :
       LET res == mount(ctl, Cur, "ov", "base", mods, rev) IN
       /\ disk' = res.c.disk
       /\ ctx' = CtxOf(res.c)
       /\ ctl' = res.k
       /\ reply' = Reply("mount", "OK")
       /\ UNCHANGED <<fault, nops, thr, lock, hist>>

Unmount == Live /\ Control(unmount(ctl, Cur, NoFaults(disk, ctl.m_stagingDir)) @@ [r |-> 0], "unmount")

Rebuild ==
  /\ Live
  /\ \E mods \in ModLists, rev \in BOOLEAN :
       Control(rebuild(ctl, Cur, mods, "ov", rev), "rebuild")

FlushStagingLive ==
  /\ Live
  /\ \E rev \in BOOLEAN :
       Control(flushStagingLive(ctl, Cur, NoFaults(disk, ctl.m_stagingDir), rev),
               "flushStagingLive")

Lookup ==
  Live /\ \E parent \in Inos, name \in Names :
            HostOk(parent, name) /\ Apply(mo2_lookup(Cur, parent, name))

Getattr == Live /\ \E ino \in Inos : Apply(mo2_getattr(Cur, ino))

Open ==
  Live /\ ctx.next_fh <= MaxHandles
       /\ \E ino \in Inos, flags \in {O_RDONLY, O_RDWR} :
            Apply(mo2_open(Cur, ino, flags, "none"))

Read == Live /\ \E fh \in Handles : Apply(mo2_read(Cur, fh, MaxOff + 1, 0))

Write ==
  Live /\ \E fh \in Handles, off \in 0..MaxOff : Apply(mo2_write(Cur, fh, <<1>>, off))

Create ==
  Live /\ ctx.next_fh <= MaxHandles
       /\ \E parent \in Inos, name \in Names :
            HostOk(parent, name) /\ Apply(mo2_create(Cur, parent, name, "none"))

Mkdir ==
  Live /\ \E parent \in Inos, name \in Names :
            HostOk(parent, name) /\ Apply(mo2_mkdir(Cur, parent, name))

Unlink ==
  Live /\ \E parent \in Inos, name \in Names :
            HostOk(parent, name) /\ Apply(mo2_unlink(Cur, parent, name))

Rename ==
  Live /\ \E parent \in Inos, name \in Names, newparent \in Inos, newname \in Names,
             flags \in {0, 1} :
            /\ HostOk(parent, name) /\ HostOk(newparent, newname)
            /\ (flags = 1 => parent = 1 /\ newparent = 1 /\ name = newname)
            /\ Apply(mo2_rename(Cur, parent, name, newparent, newname, flags))

Setattr ==
  Live /\ \E ino \in Inos, size \in {0, MaxOff + 1}, to_set_size \in BOOLEAN,
             fi \in Handles \cup {0} :
            /\ (~to_set_size => size = 0 /\ fi = 0)
            /\ Apply(mo2_setattr(Cur, ino, size, to_set_size, fi, "none"))

Release == Live /\ \E fh \in Handles : Apply(mo2_release(Cur, fh))

Next ==
  \/ Mount \/ Unmount \/ Rebuild \/ FlushStagingLive
  \/ Lookup \/ Getattr \/ Open \/ Read \/ Write \/ Create \/ Mkdir \/ Unlink
  \/ Rename \/ Setattr \/ Release

Spec == Init /\ [][Next]_vars

(* ------------------------- the read-only layers ------------------------- *)
\* C1: no file or directory under the stock data directory or under a mod
\* directory is created, changed, truncated, renamed or deleted by any
\* sequence of adapter and controller operations: those directories stay
\* what they were before the mount.
LayersUntouched == disk.base = BaseDir /\ disk.mA = ModA /\ disk.mB = ModB

\* a write through a handle went through, into the staging directory
WroteIntoStaging ==
  /\ reply.op = "write" /\ reply.err = "OK"
  /\ \E rel \in DOMAIN disk.st :
       /\ disk.st[rel].kind = "file"
       /\ \E i \in 1..Len(disk.st[rel].bytes) : disk.st[rel].bytes[i] = 1

(* --------------------------- composing the tree ------------------------- *)
\* Sources of every shape: files whose names differ by case only, a file
\* where another source has a directory, meta.ini at the root.
File(rel, b) == rel :> FileEntry(<<b>>)
Dir(rel) == rel :> DirEntry

BaseDirs ==
  {EmptyDir @@ File(<<"a">>, 5),
   EmptyDir @@ File(<<"d">>, 5) @@ File(<<"meta.ini">>, 5),
   EmptyDir @@ Dir(<<"d">>) @@ File(<<"d", "a">>, 5)}
OverwriteDirs ==
  {<<>>,
   EmptyDir @@ File(<<"a">>, 8),
   EmptyDir @@ File(<<"meta.ini">>, 8),
   EmptyDir @@ Dir(<<"D">>) @@ File(<<"D", "a">>, 8)}
ModADirs ==
  {EmptyDir @@ File(<<"A">>, 6) @@ File(<<"meta.ini">>, 6),
   EmptyDir @@ File(<<"d">>, 6),
   EmptyDir @@ File(<<"a">>, 6) @@ File(<<"A">>, 6),
   EmptyDir @@ Dir(<<"d">>) @@ File(<<"d", "A">>, 6)}
ModBDirs ==
  {EmptyDir,
   EmptyDir @@ File(<<"a">>, 7),
   EmptyDir @@ Dir(<<"d">>) @@ File(<<"d", "a">>, 7) @@ File(<<"D">>, 7)}
ComposeLists == {<<>>, <<"mA">>, <<"mA", "mB">>, <<"mB", "mA">>}

InitCompose ==
  /\ disk \in {[base |-> b, mA |-> x, mB |-> y, ov |-> o, st |-> <<>>, cwd |-> EmptyDir] :
                 b \in BaseDirs, x \in ModADirs, y \in ModBDirs, o \in OverwriteDirs}
  /\ ctx = NoContext
  /\ ctl = NewConnector
  /\ reply = Reply("none", "OK")
  /\ fault = NoFault
  /\ nops = 0
  /\ thr = [t \in Threads |-> IdleThread]
  /\ lock = NewLock
  /\ hist = NewHist

\* the mount composes the tree from the sources
Compose ==
  /\ ~ctl.m_mounted
  /\ \E mods \in ComposeLists, rev \in BOOLEAN :
       Control(mount(ctl, Cur, "ov", "base", mods, rev), "mount")

\* a rebuild composes it again, from another list of mods
Recompose ==
  /\ Live
  /\ \E mods \in ComposeLists, rev \in BOOLEAN :
       Control(rebuild(ctl, Cur, mods, "ov", rev), "rebuild")

NextCompose == Compose \/ Recompose

SpecCompose == InitCompose /\ [][NextCompose]_vars

\* the sources of the live tree, lowest precedence first
Sources == <<ctl.m_dataDirPath, ctl.m_overwriteDir>> \o ctl.m_lastMods
SourceDir(i) == IF Sources[i] \in DOMAIN disk THEN disk[Sources[i]] ELSE <<>>
AllKeys == UNION {{Keys(q) : q \in DOMAIN SourceDir(i)} : i \in DOMAIN Sources}
\* the files of source i at the normalized path p
FilesAt(i, p) ==
  {q \in DOMAIN SourceDir(i) : Keys(q) = p /\ SourceDir(i)[q].kind = "file"}
\* the file reference the tree holds for file q of source i
RefOf(i, q) ==
  [real_path |-> IF i = 1 THEN Loc("rel", q) ELSE Loc(Sources[i], q),
   is_backing |-> i = 1]
\* resolve(p) is a file reference of source i
ResolvesInto(i, p, files) ==
  LET res == resolve(ctx.tree.nodes, p) IN
  /\ res.found /\ ~res.node.is_directory
  /\ \E q \in files :
       /\ res.node.real_path = RefOf(i, q).real_path
       /\ res.node.is_backing = RefOf(i, q).is_backing

\* the files of source i that take part in the merge: all of the stock data
\* directory; of the overwrite directory and of a mod all but meta.ini at the root
MergedAt(i, p) == {q \in FilesAt(i, p) : i = 1 \/ q # <<"meta.ini">>}
\* source j puts a directory at p, or a file at a proper ancestor of p
Obstructs(j, p) ==
  \E e \in DOMAIN SourceDir(j) \ {<<>>} :
     \/ Keys(e) = p /\ SourceDir(j)[e].kind = "dir"
     \/ IsStrictPrefix(Keys(e), p) /\ SourceDir(j)[e].kind = "file"
                                   /\ (j = 1 \/ e # <<"meta.ini">>)

WritableHandlesStaged ==
  \A fh \in DOMAIN ctx.open_files :
    ctx.open_files[fh].writable =>
      /\ ~ctx.open_files[fh].is_backing
      /\ ctx.open_files[fh].real_path.root = ctx.overwrite.m_stagingDir

(* ---------------------------- copy on write ----------------------------- *)
\* C4: when the node of a file is is_backing, a successful open with write
\* intent records a handle whose real_path is under the staging directory,
\* repoints the tree node at that staging file, and a getattr right after
\* reports the size of the staging file.
OpenForWriteStages ==
  [][ ( /\ reply'.op = "open" /\ reply'.err = "OK"
        /\ snapshotForPath(Cur, reply'.path).is_backing
        /\ ctx'.open_files[reply'.fh].writable )
      => LET of   == ctx'.open_files[reply'.fh]
             at   == of.real_path
             node == snapshotForPath(Cur', reply'.path)
             attr == mo2_getattr(Cur', reply'.ino).r
         IN /\ at.root = ctx.overwrite.m_stagingDir
            /\ node.found /\ ~node.is_directory /\ ~node.is_backing
            /\ node.real_path = at
            /\ attr.err = "OK"
            /\ attr.size = (IF IsFile(disk', at) THEN Len(disk'[at.root][at.rel].bytes)
                            ELSE 0) ]_vars

\* a base file has just been opened for writing: the handle is on the
\* staging copy, which holds the bytes of the base file
OpenedBaseForWrite ==
  /\ reply.op = "open" /\ reply.err = "OK" /\ reply.path = <<"a">>
  /\ ctl.m_lastMods = <<>>
  /\ ctx.open_files[reply.fh].writable
  /\ IsFile(disk, Loc("st", <<"a">>)) /\ disk.st[<<"a">>].bytes = BaseDir[<<"a">>].bytes

(* --------------------------- a host that fails -------------------------- *)
CowFaults == {"none", "src", "dest", "short"}
CowFault(f) == [cow |-> f, fold |-> <<>>]
FoldFault(f) == [cow |-> "none", fold |-> f]

\* the staged entries, the regular files among them, and the ways of failing
\* to move them
Staged(d, staging) == IF staging \in DOMAIN d THEN DOMAIN d[staging] ELSE {}
StagedFiles(d, staging) == {rel \in Staged(d, staging) : d[staging][rel].kind = "file"}
FoldFaults(d, staging) ==
  {[rel \in Staged(d, staging) |-> IF rel \in StagedFiles(d, staging) THEN g[rel] ELSE "none"] :
     g \in [StagedFiles(d, staging) -> {"none", "rename", "both"}]}

\* the copy-on-write of this open would really copy: a file is there to be
\* opened and staging has nothing at its path yet
Strikes(ino) ==
  LET ip == inodeToPath(Cur, ino)
      snap == snapshotForPath(Cur, ip.path)
  IN ip.ok /\ snap.found /\ ~snap.is_directory
     /\ ~Exists(disk, stagingPath(ctx.overwrite, ip.path))

OpenUnder ==
  Live /\ ctx.next_fh <= MaxHandles
       /\ \E ino \in Inos, f \in CowFaults :
            /\ (f # "none" => Strikes(ino))
            /\ ApplyUnder(mo2_open(Cur, ino, O_RDWR, f), CowFault(f))

CreateUnder ==
  Live /\ ctx.next_fh <= MaxHandles
       /\ \E parent \in Inos, name \in Names, f \in {"none", "dest"} :
            /\ HostOk(parent, name)
            /\ ApplyUnder(mo2_create(Cur, parent, name, f), CowFault(f))

SetattrUnder ==
  Live /\ \E ino \in Inos, f \in CowFaults :
            /\ (f # "none" => Strikes(ino))
            /\ ApplyUnder(mo2_setattr(Cur, ino, 0, TRUE, 0, f), CowFault(f))

FlushUnder ==
  /\ Live
  /\ \E f \in FoldFaults(disk, ctl.m_stagingDir) :
       ControlUnder(flushStagingLive(ctl, Cur, f, FALSE), "flushStagingLive", FoldFault(f))

UnmountUnder ==
  /\ Live
  /\ \E f \in FoldFaults(disk, ctl.m_stagingDir) :
       ControlUnder(unmount(ctl, Cur, f) @@ [r |-> 0], "unmount", FoldFault(f))

NextFault ==
  \/ Mount \/ Lookup \/ Write \/ Mkdir
  \/ OpenUnder \/ CreateUnder \/ SetattrUnder \/ FlushUnder \/ UnmountUnder

SpecFault == Init /\ [][NextFault]_vars

\* C5: when the copy-on-write of an open fails (the source cannot be opened,
\* the staging file cannot be created, or the copy stops early), the open
\* fails with an I/O error, the tree is left as it was and no handle is
\* recorded.
FailedCowFailsOpen ==
  [][ (reply'.op = "open" /\ fault'.cow # "none")
      => /\ reply'.err = "EIO"
         /\ ctx'.tree = ctx.tree
         /\ ctx'.open_files = ctx.open_files ]_vars

(* ------------------------- folding staging back ------------------------- *)
\* a step of flushStaging: from a live mount, by flushStagingLive or unmount
FlushStep == ctl.m_mounted /\ reply'.op \in {"flushStagingLive", "unmount"}
StagingGone ==
  Staged(disk', ctl.m_stagingDir) \subseteq {<<>>}
InOverwriteAfter(rel) ==
  /\ IsFile(disk', Loc(ctl.m_overwriteDir, rel))
  /\ disk'[ctl.m_overwriteDir][rel].bytes = disk[ctl.m_stagingDir][rel].bytes
\* overwrite has room for the file: no directory at its path, no file at a
\* proper ancestor of its path
Unobstructed(rel) ==
  /\ ~IsDir(disk, Loc(ctl.m_overwriteDir, rel))
  /\ \A i \in 0..(Len(rel) - 1) : ~IsFile(disk, Loc(ctl.m_overwriteDir, SubSeq(rel, 1, i)))
\* the rename works, or the rename fails and the copy works
Moves(rel) == Unobstructed(rel) /\ fault'.fold[rel] # "both"
OverwriteKeeps(rel) ==
  LET at == Loc(ctl.m_overwriteDir, rel) IN
  /\ Exists(disk', at) = Exists(disk, at)
  /\ Exists(disk, at) => disk'[at.root][at.rel] = disk[at.root][at.rel]

\* C6 (as stated): after flushStaging, whatever the outcome for each file
\* (the rename works; the rename fails and the copy works; both fail), the
\* staging directory is empty or absent and every regular file that was in
\* staging is at the same relative path under overwrite with the same bytes.
FlushMovesEveryFile ==
  [][ FlushStep =>
        /\ StagingGone
        /\ \A rel \in StagedFiles(disk, ctl.m_stagingDir) : InOverwriteAfter(rel) ]_vars

\* C6 (amended): after flushStaging the staging directory is empty or
\* absent; every regular file that was in staging and whose move worked (by
\* rename, or by copy after a failed rename) is at the same relative path
\* under overwrite with the same bytes; a file whose rename and copy both
\* fail is skipped and removed with the staging tree, and overwrite is at
\* its path what it was.
FlushMovesWhatItCan ==
  [][ FlushStep =>
        /\ StagingGone
        /\ \A rel \in StagedFiles(disk, ctl.m_stagingDir) :
             IF Moves(rel) THEN InOverwriteAfter(rel) ELSE OverwriteKeeps(rel) ]_vars

\* a flush where the rename of a staged file failed and the copy carried
\* its bytes over
FlushedByCopy ==
  /\ reply.op = "flushStagingLive"
  /\ \E rel \in DOMAIN fault.fold :
       /\ fault.fold[rel] = "rename"
       /\ IsFile(disk, Loc(ctl.m_overwriteDir, rel))
       /\ disk[ctl.m_overwriteDir][rel].bytes # <<>>

(* ------------------------- handlers, step by step ----------------------- *)
\* The steps of a handler in the order of its code.  lock_shared and
\* unique_lock take tree_mutex; the step after them works on the tree and
\* ends the scope of the lock.  The last step of a handler sends its reply.
snapshotForPathSteps == <<"lock_shared", "snap">>
\* a variant that takes no lock
updateFileNodeSteps_unlocked == <<"file_size", "insertFile">>
updateFileNodeSteps == <<"file_size", "unique_lock", "insertFile">>
mo2_getattrSteps == snapshotForPathSteps
mo2_lookupSteps == snapshotForPathSteps \o <<"getOrCreate">>
mo2_writeSteps == <<"io">> \o updateFileNodeSteps
mo2_createSteps ==
  <<"io">> \o updateFileNodeSteps \o <<"unique_lock", "count", "getOrCreate">>
           \o snapshotForPathSteps
mo2_unlinkSteps == <<"io", "unique_lock", "removeFromTree">>
mo2_mkdirSteps ==
  <<"io", "unique_lock", "insertDirectory", "getOrCreate">> \o snapshotForPathSteps
mo2_renameSteps == snapshotForPathSteps \o <<"io", "unique_lock", "move", "inodeRename">>
rebuildSteps == <<"build", "unique_lock", "swap">>
flushStagingLiveSteps == <<"flushStaging", "build", "unique_lock", "swap", "overwrite">>
\* FuseConnector::mount in the order of its code
mountSteps ==
  <<"unmount", "exists", "create_directories", "scanDataDir", "open",
    "tryCleanupStaleMount", "buildDataDirVfs", "context", "fuse_session_new",
    "fuse_session_mount", "m_mounted">>
\* a variant that folds staging before the service thread is joined
unmountSteps_foldFirst ==
  <<"m_mounted", "session_exit", "flushStaging", "join", "session_destroy", "close",
    "reset">>
unmountSteps ==
  <<"m_mounted", "session_exit", "join", "session_destroy", "flushStaging", "close",
    "reset">>

Steps(op) ==
  CASE op = "getattr" -> mo2_getattrSteps
    [] op = "lookup" -> mo2_lookupSteps
    [] op = "write" -> mo2_writeSteps
    [] op = "create" -> mo2_createSteps
    [] op = "unlink" -> mo2_unlinkSteps
    [] op = "mkdir" -> mo2_mkdirSteps
    [] op = "rename" -> mo2_renameSteps
    [] op = "rebuild" -> rebuildSteps
    [] op = "flushStagingLive" -> flushStagingLiveSteps
    [] op = "unmount" -> unmountSteps
    [] op = "mount" -> mountSteps
    [] OTHER -> <<>>

Step(t) == IF thr[t].op = "idle" THEN "none" ELSE Steps(thr[t].op)[thr[t].pc]
TreeReads == {"snap"}
TreeWrites == {"insertFile", "count", "removeFromTree", "insertDirectory", "move", "swap"}

\* std::shared_lock / std::unique_lock on tree_mutex
lock_shared_ok(l, t) == l.writer = "none"
lock_shared(l, t) == [l EXCEPT !.readers = @ \cup {t}]
unique_lock_ok(l, t) == l.writer = "none" /\ l.readers = {}
unique_lock(l, t) == [l EXCEPT !.writer = t]
unlock(l, t) ==
  [l EXCEPT !.writer = IF @ = t THEN "none" ELSE @, !.readers = @ \ {t}]

\* the calls a thread may start on the file a (inode 2, handle 1) and the
\* directory d: one worker reads a, creates, removes and renames it and
\* makes d, the other writes a; the controller's thread swaps the tree
Call(op, path, newpath, fh, off, mods) ==
  [IdleThread EXCEPT !.op = op, !.pc = 1, !.path = path, !.newpath = newpath,
                     !.fh = fh, !.off = off, !.mods = mods]
WriteCalls ==
  {Call("write", <<>>, <<>>, fh, off, <<>>) :
     fh \in DOMAIN ctx.open_files, off \in 0..MaxOff}
ReadWriteCalls ==
  {Call("getattr", inodeToPath(Cur, 2).path, <<>>, 0, 0, <<>>)} \cup WriteCalls
Calls(t) ==
  IF t \in Workers
    THEN IF t # "w1" THEN WriteCalls ELSE
              {Call("getattr", inodeToPath(Cur, 2).path, <<>>, 0, 0, <<>>),
               Call("create", joinPath(<<>>, <<"a">>), <<>>, 0, 0, <<>>),
               Call("unlink", joinPath(<<>>, <<"a">>), <<>>, 0, 0, <<>>),
               Call("mkdir", joinPath(<<>>, <<"d">>), <<>>, 0, 0, <<>>),
               Call("rename", joinPath(<<>>, <<"a">>), joinPath(<<>>, <<"A">>), 0, 0, <<>>)}
    ELSE {Call("rebuild", <<>>, <<>>, 0, 0, <<"mA">>)}
         \cup {Call("flushStagingLive", <<>>, <<>>, 0, 0, <<>>)}

Max(a, b) == IF a >= b THEN a ELSE b

ReplyOf(me, err) ==
  [Reply(me.op, err) EXCEPT
     !.path = me.path, !.fh = me.fh, !.ino = IF err = "OK" THEN me.ino ELSE 0,
     !.is_dir = err = "OK" /\ me.snap.is_directory,
     !.size = IF err # "OK" THEN 0 ELSE IF me.op = "write" THEN 1 ELSE me.snap.size]

\* the thread goes on to its next step; after the last step, or when the
\* handler returns early with an error, it replies and is idle again
Proceed(t, me, err) ==
  IF err # "OK" \/ me.pc = Len(Steps(me.op))
    THEN /\ thr' = [thr EXCEPT ![t] = [IdleThread EXCEPT !.out = ReplyOf(me, err),
                                                         !.need = me.need]]
         /\ hist' = IF me.op = "write" /\ err = "OK"
                      THEN [hist EXCEPT !.acked = Max(@, me.off + 1)]
                      ELSE hist
    ELSE /\ thr' = [thr EXCEPT ![t] = [me EXCEPT !.pc = @ + 1]]
         /\ UNCHANGED hist

\* the host hands the thread a call out of `calls`
Start(t, calls) ==
  /\ thr[t].op = "idle" /\ nops < MaxOps
  /\ \E call \in calls :
       thr' = [thr EXCEPT ![t] = [call EXCEPT !.need = IF call.op = "getattr"
                                                        THEN hist.acked ELSE 0]]
  /\ nops' = nops + 1
  /\ UNCHANGED <<disk, ctx, ctl, reply, fault, lock, hist>>

Begin(t) == Start(t, Calls(t))
\* only reads and writes of the file a
BeginReadWrite(t) == t \in Workers /\ Start(t, ReadWriteCalls)

LockShared(t) ==
  /\ Step(t) = "lock_shared" /\ lock_shared_ok(lock, t)
  /\ lock' = lock_shared(lock, t)
  /\ thr' = [thr EXCEPT ![t].pc = @ + 1]
  /\ UNCHANGED <<disk, ctx, ctl, reply, fault, nops, hist>>

LockUnique(t) ==
  /\ Step(t) = "unique_lock" /\ unique_lock_ok(lock, t)
  /\ lock' = unique_lock(lock, t)
  /\ thr' = [thr EXCEPT ![t].pc = @ + 1]
  /\ UNCHANGED <<disk, ctx, ctl, reply, fault, nops, hist>>

\* snapshotForPath under the lock, and what the handler makes of it
TreeRead(t) ==
  /\ Step(t) \in TreeReads
  /\ LET me   == thr[t]
         snap == snapshotForPath(Cur, me.path)
         err  == CASE me.op \in {"getattr", "rename", "lookup"} ->
                        IF snap.found THEN "OK" ELSE "ENOENT"
                   [] me.op = "create" ->
                        IF snap.found /\ ~snap.is_directory THEN "OK" ELSE "EIO"
                   [] OTHER -> IF snap.found THEN "OK" ELSE "EIO"
         made == me.op = "create" /\ err = "OK"
     IN /\ ctx' = IF made
                    THEN CtxOf(addHandle(Cur, OpenFile(me.real, TRUE, FALSE, me.path)))
                    ELSE ctx
        /\ Proceed(t, [me EXCEPT !.snap = snap,
                                 !.fh = IF made THEN ctx.next_fh ELSE @], err)
  /\ lock' = unlock(lock, t)
  /\ UNCHANGED <<disk, ctl, reply, fault, nops>>

\* the change a handler makes to the tree under the lock
TreeWrite(t) ==
  /\ Step(t) \in TreeWrites
  /\ LET me    == thr[t]
         step  == Step(t)
         nodes == ctx.tree.nodes
         rt    == removeFromTree(nodes, splitPath(me.path))
         staged == stagingPath(ctx.overwrite, me.newpath)
         real  == IF Exists(disk, staged) THEN staged
                  ELSE overwritePath(ctx.overwrite, me.newpath)
         tree  ==
           CASE step = "insertFile" ->
                  [ctx.tree EXCEPT !.nodes = insertFile(nodes, splitPath(me.path), me.real,
                                                        me.size, "Staging", FALSE)]
             [] step = "count" -> [ctx.tree EXCEPT !.file_count = @ + 1]
             [] step = "removeFromTree" ->
                  [ctx.tree EXCEPT !.nodes = rt.nodes,
                                   !.file_count = IF rt.removed /\ @ > 0 THEN @ - 1 ELSE @]
             [] step = "insertDirectory" ->
                  [ctx.tree EXCEPT !.nodes = insertDirectory(nodes, splitPath(me.path)),
                                   !.dir_count = @ + 1]
             [] step = "move" ->
                  [ctx.tree EXCEPT !.nodes =
                     IF me.snap.is_directory
                       THEN insertDirectory(rt.nodes, splitPath(me.newpath))
                       ELSE insertFile(rt.nodes, splitPath(me.newpath), real,
                                       me.snap.size, "Staging", FALSE)]
             [] OTHER -> me.tree
     IN /\ ctx' = [ctx EXCEPT !.tree = tree]
        /\ Proceed(t, me, "OK")
  /\ lock' = unlock(lock, t)
  /\ UNCHANGED <<disk, ctl, reply, fault, nops>>

\* what a handler does outside the tree lock: to the disk, to the inode
\* table, to its own locals
HostSteps ==
  {"io", "file_size", "getOrCreate", "inodeRename", "build", "flushStaging", "overwrite"}

Outcome(d, c, k, me, err) == [d |-> d, c |-> c, k |-> k, me |-> me, err |-> err]

writeIo(me) ==
  LET of == ctx.open_files[me.fh]
      at == AbsLoc(of.real_path)
      d1 == IF IsFile(disk, at) THEN disk
            ELSE IF canOpenForWrite(disk, at) THEN truncateOpen(disk, at)
            ELSE disk
      d2 == Put(d1, at, FileEntry(written(Bytes(d1, at), me.off, <<1>>)))
      on == [me EXCEPT !.path = of.relative_path, !.real = of.real_path]
  IN IF ~of.writable THEN Outcome(disk, ctx, ctl, on, "EACCES")
     ELSE IF ~IsFile(d1, at) THEN Outcome(d1, ctx, ctl, on, "EIO")
     ELSE Outcome(d2, ctx, ctl, on, "OK")

HostOutcome(me, step) ==
  LET wf == writeFile(disk, ctx.overwrite, me.path, "none")
      rm == removeFile(disk, ctx.overwrite, me.path)
      mk == createDirectory(disk, ctx.overwrite, me.path)
      rn == mgrRename(disk, ctx.overwrite, me.path, me.newpath)
      st == Loc(ctl.m_stagingDir, <<>>)
      d1 == createDirectories(disk, st)
  IN CASE step = "io" /\ me.op = "write" -> writeIo(me)
       [] step = "io" /\ me.op = "create" ->
            Outcome(wf.d, ctx, ctl, [me EXCEPT !.real = wf.path],
                    IF wf.ok THEN "OK" ELSE "EIO")
       [] step = "io" /\ me.op = "unlink" ->
            Outcome(IF rm.ok THEN rm.d ELSE disk, ctx, ctl, me,
                    IF rm.ok THEN "OK" ELSE "EACCES")
       [] step = "io" /\ me.op = "mkdir" ->
            Outcome(IF mk.ok THEN mk.d ELSE disk, ctx, ctl, me,
                    IF mk.ok THEN "OK" ELSE "EIO")
       [] step = "io" /\ me.op = "rename" ->
            Outcome(rn.d, ctx, ctl, me, IF rn.ok THEN "OK" ELSE "EACCES")
       [] step = "file_size" ->
            Outcome(disk, ctx, ctl,
                    [me EXCEPT !.size = fileSizeOrZero(disk, AbsLoc(me.real))], "OK")
       [] step = "getOrCreate" ->
            Outcome(disk, [ctx EXCEPT !.inodes = getOrCreate(@, me.path).table], ctl,
                    [me EXCEPT !.ino = getOrCreate(ctx.inodes, me.path).ino], "OK")
       [] step = "inodeRename" ->
            Outcome(disk, [ctx EXCEPT !.inodes = inodeRename(@, me.path, me.newpath)],
                    ctl, me, "OK")
       [] step = "build" /\ me.op = "rebuild" ->
            Outcome(disk, ctx, [ctl EXCEPT !.m_lastMods = me.mods],
                    [me EXCEPT !.tree = buildDataDirVfs(ctl.m_baseFileCache, disk, me.mods,
                                                        ctl.m_overwriteDir, FALSE)], "OK")
       [] step = "build" /\ me.op = "flushStagingLive" ->
            Outcome(d1, ctx, ctl,
                    [me EXCEPT !.tree = buildDataDirVfs(ctl.m_baseFileCache, d1,
                                                        ctl.m_lastMods, ctl.m_overwriteDir,
                                                        FALSE)], "OK")
       [] step = "flushStaging" ->
            Outcome(flushStaging(ctl, disk, NoFaults(disk, ctl.m_stagingDir)),
                    ctx, ctl, me, "OK")
       [] OTHER ->
            Outcome(NewOverwriteManager(disk, ctl.m_stagingDir, ctl.m_overwriteDir),
                    [ctx EXCEPT !.overwrite = [m_stagingDir |-> ctl.m_stagingDir,
                                               m_overwriteDir |-> ctl.m_overwriteDir]],
                    ctl, me, "OK")

HostIo(t) ==
  /\ Step(t) \in HostSteps
  /\ LET res == HostOutcome(thr[t], Step(t)) IN
       /\ disk' = res.d
       /\ ctx' = res.c
       /\ ctl' = res.k
       /\ Proceed(t, res.me, res.err)
  /\ UNCHANGED <<reply, fault, nops, lock>>

\* a live mount without mods, the base file a looked up (inode 2) and opened
\* for writing (handle 1)
ConcStart ==
  LET m == mount(NewConnector, NoContext @@ [disk |-> World(<<>>)], "ov", "base", <<>>, FALSE)
      l == mo2_lookup(m.c, 1, <<"a">>)
      o == mo2_open(l.c, 2, O_RDWR, "none")
  IN [k |-> m.k, c |-> o.c]

InitConc ==
  /\ disk = ConcStart.c.disk
  /\ ctx = CtxOf(ConcStart.c)
  /\ ctl = ConcStart.k
  /\ reply = Reply("none", "OK")
  /\ fault = NoFault
  /\ nops = 0
  /\ thr = [t \in Threads |-> IdleThread]
  /\ lock = NewLock
  /\ hist = NewHist

NextConc ==
  \E t \in Threads :
    \/ Begin(t) \/ LockShared(t) \/ LockUnique(t) \/ TreeRead(t) \/ TreeWrite(t)
    \/ HostIo(t)

SpecConc == InitConc /\ [][NextConc]_vars

\* the workers only read and write the file a
NextReadWrite ==
  \E t \in Workers :
    \/ BeginReadWrite(t) \/ LockShared(t) \/ LockUnique(t) \/ TreeRead(t)
    \/ TreeWrite(t) \/ HostIo(t)

SpecReadWrite == InitConc /\ [][NextReadWrite]_vars

\* C7: for every successful write(handle, offset, n), every getattr of the
\* same path that starts after the write's reply reports a size of at least
\* offset + n, whatever the interleaving with other writes and getattrs
\* (nothing truncates the file in between).
WriteGrowthObserved ==
  \A t \in Threads :
    (thr[t].op = "idle" /\ thr[t].out.op = "getattr" /\ thr[t].out.err = "OK")
      => thr[t].out.size >= thr[t].need

SwapStep == ctl.m_mounted /\ reply'.op \in {"rebuild", "flushStagingLive"}

\* C8: once a mutating operation (create, mkdir, open with write intent,
\* write, size setattr, rename, unlink) has replied, every later lookup or
\* getattr observes it as long as no later adapter mutation targets the
\* same path, wherever rebuild and flushStagingLive come in between: a file
\* the adapter created or changed (its node is tagged Staging) is found
\* after the swap as a file of the same size.
SwapKeepsMutations ==
  [][ SwapStep =>
        \A K \in DOMAIN ctx.tree.nodes :
          (Resolves(ctx.tree.nodes, K) /\ ctx.tree.nodes[K].origin = "Staging")
            => LET after == snapshotForPath(Cur', genericString(K)) IN
               /\ after.found /\ ~after.is_directory
               /\ after.size = ctx.tree.nodes[K].size ]_vars

\* C9: a handle stays usable across every swap of the tree (rebuild,
\* flushStagingLive) until it is released: a read after the swap returns
\* what a read before it returned, and a write after the swap is captured
\* on top of the earlier content.
HandlesOutliveSwap ==
  [][ SwapStep =>
        \A fh \in DOMAIN ctx.open_files :
          LET before == mo2_read(Cur, fh, MaxOff + 2, 0).r
              after  == mo2_read(Cur', fh, MaxOff + 2, 0).r
              wr     == mo2_write(Cur', fh, <<1>>, 0)
          IN before.err = "OK" =>
               /\ after = before
               /\ ctx.open_files[fh].writable =>
                    /\ wr.r.err = "OK"
                    /\ mo2_read(wr.c, fh, MaxOff + 2, 0).r.data
                         = written(before.data, 0, <<1>>) ]_vars

(* ----------------------- the three locks of a context ------------------- *)
\* What each handler does to tree_mutex, inode_mutex and open_files_mutex,
\* in the order of its code, on the path that takes every lock it can take.
\* Every lock is scoped: it is released where its block ends.
inodeToPathLocks == <<"inode_mutex.lock", "inode_mutex.unlock">>
snapshotForPathLocks == <<"tree_mutex.lock_shared", "tree_mutex.unlock">>
updateFileNodeLocks == <<"tree_mutex.lock", "tree_mutex.unlock">>
open_filesLocks == <<"open_files_mutex.lock", "open_files_mutex.unlock">>

\* a variant that keeps inode_mutex while it reads the tree
mo2_lookupLocks_nested ==
  <<"inode_mutex.lock", "tree_mutex.lock_shared", "tree_mutex.unlock", "inode_mutex.unlock">>
mo2_lookupLocks == inodeToPathLocks \o snapshotForPathLocks \o inodeToPathLocks
mo2_getattrLocks == inodeToPathLocks \o snapshotForPathLocks
mo2_readdirLocks == inodeToPathLocks \o snapshotForPathLocks \o inodeToPathLocks
mo2_openLocks ==
  inodeToPathLocks \o snapshotForPathLocks \o updateFileNodeLocks \o open_filesLocks
mo2_readLocks == open_filesLocks
mo2_writeLocks == open_filesLocks \o updateFileNodeLocks
mo2_createLocks ==
  inodeToPathLocks \o updateFileNodeLocks \o updateFileNodeLocks \o inodeToPathLocks
                   \o snapshotForPathLocks \o open_filesLocks
mo2_renameLocks ==
  inodeToPathLocks \o inodeToPathLocks \o snapshotForPathLocks \o updateFileNodeLocks
                   \o inodeToPathLocks
mo2_setattrLocks ==
  inodeToPathLocks \o open_filesLocks \o snapshotForPathLocks \o open_filesLocks
                   \o updateFileNodeLocks \o snapshotForPathLocks
mo2_unlinkLocks == inodeToPathLocks \o updateFileNodeLocks
mo2_mkdirLocks ==
  inodeToPathLocks \o updateFileNodeLocks \o inodeToPathLocks \o snapshotForPathLocks
mo2_releaseLocks == open_filesLocks
rebuildLocks == updateFileNodeLocks
flushStagingLiveLocks == updateFileNodeLocks

Locks(op) ==
  CASE op = "lookup" -> mo2_lookupLocks
    [] op = "getattr" -> mo2_getattrLocks
    [] op = "readdir" -> mo2_readdirLocks
    [] op = "open" -> mo2_openLocks
    [] op = "read" -> mo2_readLocks
    [] op = "write" -> mo2_writeLocks
    [] op = "create" -> mo2_createLocks
    [] op = "rename" -> mo2_renameLocks
    [] op = "setattr" -> mo2_setattrLocks
    [] op = "unlink" -> mo2_unlinkLocks
    [] op = "mkdir" -> mo2_mkdirLocks
    [] op = "release" -> mo2_releaseLocks
    [] op = "rebuild" -> rebuildLocks
    [] op = "flushStagingLive" -> flushStagingLiveLocks
    [] OTHER -> <<>>

AdapterOps ==
  {"lookup", "getattr", "readdir", "open", "read", "write", "create", "rename",
   "setattr", "unlink", "mkdir", "release"}
ControllerOps == {"rebuild", "flushStagingLive"}

LockStep(t) == IF thr[t].op = "idle" THEN "none" ELSE Locks(thr[t].op)[thr[t].pc]

\* std::mutex::lock of inode_mutex and of open_files_mutex
mutex_lock_ok(l, m) == l[m] = "none"
mutex_lock(l, m, t) == [l EXCEPT ![m] = t]
mutex_unlock(l, m, t) == [l EXCEPT ![m] = IF @ = t THEN "none" ELSE @]

\* the thread has done this step: it goes on, or replies after the last one
Advance(t) ==
  thr' = [thr EXCEPT ![t] =
            IF thr[t].pc = Len(Locks(thr[t].op))
              THEN IdleThread
              ELSE [thr[t] EXCEPT !.pc = @ + 1]]

\* the host hands a worker a callback, the controller's thread a swap
Enter(t) ==
  /\ thr[t].op = "idle" /\ nops < MaxOps
  /\ \E op \in (IF t \in Workers THEN AdapterOps ELSE ControllerOps) :
       thr' = [thr EXCEPT ![t] = [IdleThread EXCEPT !.op = op, !.pc = 1]]
  /\ nops' = nops + 1
  /\ UNCHANGED <<disk, ctx, ctl, reply, fault, lock, hist>>

CanTake(t) ==
  \/ LockStep(t) = "tree_mutex.lock_shared" /\ lock_shared_ok(lock, t)
  \/ LockStep(t) = "tree_mutex.lock" /\ unique_lock_ok(lock, t)
  \/ LockStep(t) = "inode_mutex.lock" /\ mutex_lock_ok(lock, "inode_mutex")
  \/ LockStep(t) = "open_files_mutex.lock" /\ mutex_lock_ok(lock, "open_files_mutex")

Take(t) ==
  /\ CanTake(t)
  /\ lock' = CASE LockStep(t) = "tree_mutex.lock_shared" -> lock_shared(lock, t)
               [] LockStep(t) = "tree_mutex.lock" -> unique_lock(lock, t)
               [] LockStep(t) = "inode_mutex.lock" -> mutex_lock(lock, "inode_mutex", t)
               [] OTHER -> mutex_lock(lock, "open_files_mutex", t)
  /\ Advance(t)
  /\ UNCHANGED <<disk, ctx, ctl, reply, fault, nops, hist>>

CanGive(t) ==
  LockStep(t) \in {"tree_mutex.unlock", "inode_mutex.unlock", "open_files_mutex.unlock"}

Give(t) ==
  /\ CanGive(t)
  /\ lock' = CASE LockStep(t) = "tree_mutex.unlock" -> unlock(lock, t)
               [] LockStep(t) = "inode_mutex.unlock" -> mutex_unlock(lock, "inode_mutex", t)
               [] OTHER -> mutex_unlock(lock, "open_files_mutex", t)
  /\ Advance(t)
  /\ UNCHANGED <<disk, ctx, ctl, reply, fault, nops, hist>>

NextLocks == \E t \in Threads : Enter(t) \/ Take(t) \/ Give(t)

\* a thread that can take its next step takes it
SpecLocks ==
  InitConc /\ [][NextLocks]_vars /\ \A t \in Threads : WF_vars(Take(t) \/ Give(t))

Held(t) ==
  {m \in {"tree_mutex", "inode_mutex", "open_files_mutex"} :
     IF m = "tree_mutex" THEN lock.writer = t \/ t \in lock.readers ELSE lock[m] = t}

HoldsAtMostOne == \A t \in Threads : Cardinality(Held(t)) <= 1
SomebodyMoves ==
  (\E t \in Threads : thr[t].op # "idle") => \E t \in Threads : CanTake(t) \/ CanGive(t)

Alt(t) ==
  CASE t = "a" \/ t = "A" -> {"a", "A"}
    [] t = "d" \/ t = "D" -> {"d", "D"}
    [] IsSep(t) -> {"/", "\\"}
    [] OTHER -> {t}

\* the strings that differ from s only in letter case or slash direction
Spellings(s) == {q \in [DOMAIN s -> UNION {Alt(s[i]) : i \in DOMAIN s}] :
                   \A i \in DOMAIN s : q[i] \in Alt(s[i])}

\* a children-map key in normalized form: no upper-case letter, no backslash
IsNormalized(k) == k \notin {"A", "D", "\\"}

\* the paths the tree is asked for
Probes == {genericString(K) : K \in HostPaths}

\* C12: in every tree the mount can reach (composed, then changed by
\* inserts and removals, then composed again), every key of a children map
\* is in normalized form, and two paths that differ only in letter case or
\* slash direction resolve to the same node, or both to none.
SpellingsResolveAlike ==
  /\ \A K \in DOMAIN ctx.tree.nodes : \A i \in DOMAIN K : IsNormalized(K[i])
  /\ \A p \in Probes : \A q \in Spellings(p) :
       resolve(ctx.tree.nodes, splitPath(q)) = resolve(ctx.tree.nodes, splitPath(p))

\* the host created A beside the stock file a: the node is kept under the
\* key a with the display name A, and both spellings reach it
CreatedUnderOtherCase ==
  /\ reply.op = "create" /\ reply.err = "OK" /\ reply.path = <<"A">>
  /\ <<"a">> \in DOMAIN ctx.tree.nodes /\ ctx.tree.nodes[<<"a">>].display = "A"
  /\ resolve(ctx.tree.nodes, splitPath(<<"a">>)).found
  /\ resolve(ctx.tree.nodes, splitPath(<<"A">>)).node.origin = "Staging"

(* ------------------------------- rename --------------------------------- *)
\* a step in which mo2_rename moved a file: old and new are its two paths
RenamedFile ==
  /\ reply'.op = "rename" /\ reply'.err = "OK"
  /\ snapshotForPath(Cur, reply'.path).found
  /\ ~snapshotForPath(Cur, reply'.path).is_directory

\* lookup(new) finds a file whose real_path is a file under the staging or
\* the overwrite directory, and every ancestor of new is a directory
NewIsStaged(new) ==
  LET lk   == mo2_lookup(Cur', 1, new).r
      node == snapshotForPath(Cur', new)
      comp == splitPath(new)
  IN /\ lk.err = "OK" /\ ~lk.is_dir
     /\ node.real_path.root \in {ctx.overwrite.m_stagingDir, ctx.overwrite.m_overwriteDir}
     /\ IsFile(disk', node.real_path)
     /\ \A i \in 1..(Len(comp) - 1) :
          snapshotForPath(Cur', genericString(SubSeq(comp, 1, i))).is_directory

\* C13: after a successful rename(old -> new) of a file, lookup(old)
\* reports NoEntry (old and new being two paths, not two spellings of one:
\* then old resolves to the renamed file), lookup(new) resolves to a file
\* node whose real_path lies under the staging or overwrite directory and
\* exists there, and every ancestor directory of new resolves as a
\* directory.
RenameMovesNode ==
  [][ RenamedFile =>
        /\ IF Keys(splitPath(reply'.path)) # Keys(splitPath(reply'.data))
             THEN mo2_lookup(Cur', 1, reply'.path).r.err = "ENOENT"
             ELSE snapshotForPath(Cur', reply'.path) = snapshotForPath(Cur', reply'.data)
        /\ NewIsStaged(reply'.data) ]_vars

(* ---------------------------- the inode table --------------------------- *)
\* C14: in every state of the inode table that getOrCreate and rename can
\* lead to (a rename onto a path that already has an inode included), the
\* two maps are inverse to each other: every inode has one canonical path,
\* whose key leads back to that inode, so no two inodes have the same
\* path; inode 1 is the root; every inode handed out is below m_nextInode.
InodeMapsInverse ==
  LET t == ctx.inodes IN
  /\ \A k \in DOMAIN t.m_pathToInode :
       /\ t.m_pathToInode[k] \in DOMAIN t.m_inodeToPath
       /\ normalizeForLookup(t.m_inodeToPath[t.m_pathToInode[k]]) = k
  /\ \A i \in DOMAIN t.m_inodeToPath :
       /\ normalizeForLookup(t.m_inodeToPath[i]) \in DOMAIN t.m_pathToInode
       /\ t.m_pathToInode[normalizeForLookup(t.m_inodeToPath[i])] = i
       /\ i < t.m_nextInode
  /\ t.m_inodeToPath[1] = <<>> /\ t.m_pathToInode[<<>>] = 1

\* The table on its own: any sequence of getOrCreate and rename over a few
\* paths, spelled in either case and with either slash.
InodePaths ==
  {<<"a">>, <<"A">>, <<"d">>, <<"d", "/", "a">>, <<"d", "\\", "A">>, <<"a", "/", "d">>}

GetOrCreate ==
  \E path \in InodePaths :
    LET got == getOrCreate(ctx.inodes, path) IN
    /\ got.ino <= MaxInodes /\ nops < MaxOps
    /\ ctx' = [ctx EXCEPT !.inodes = got.table]
    /\ reply' = [Reply("getOrCreate", "OK") EXCEPT !.path = path, !.ino = got.ino]
    /\ nops' = nops + 1
    /\ UNCHANGED <<disk, ctl, fault, thr, lock, hist>>

\* a rename the filesystem can have made: not of a path into itself
InodeRename ==
  \E old \in InodePaths, new \in InodePaths :
    /\ ~IsPrefix(normalizeForLookup(canonicalizePath(old)),
                 normalizeForLookup(canonicalizePath(new)))
    /\ nops < MaxOps
    /\ ctx' = [ctx EXCEPT !.inodes = inodeRename(@, old, new)]
    /\ reply' = [Reply("inodeRename", "OK") EXCEPT !.path = old, !.data = new]
    /\ nops' = nops + 1
    /\ UNCHANGED <<disk, ctl, fault, thr, lock, hist>>

NextInodes == GetOrCreate \/ InodeRename

SpecInodes == Init /\ [][NextInodes]_vars

\* the keys below old in the table t, and what is left of one without old
Below(t, old) ==
  LET oldKey == normalizeForLookup(canonicalizePath(old)) IN
  {k \in DOMAIN t.m_pathToInode : IsStrictPrefix(oldKey \o <<"/">>, k)}
Rest(k, old) == SubSeq(k, Len(canonicalizePath(old)) + 1, Len(k))

\* C15: after InodeTable::rename(old, new), the path of getOrCreate(new) is
\* canonical(new); the inode old had is the one now returned for new; and
\* every inode that a descendant old/d had keeps its number, has the path
\* canonical(new)/d, and is the inode getOrCreate(new/d) returns.  (Paths
\* are compared up to letter case: an inode keeps the spelling it was
\* first asked for.)
RenameCarriesInodes ==
  [][ reply'.op = "inodeRename" =>
        LET before == ctx.inodes
            after  == ctx'.inodes
            old    == reply'.path
            new    == canonicalizePath(reply'.data)
            oldKey == normalizeForLookup(canonicalizePath(old))
            got    == getOrCreate(after, new)
        IN /\ normalizeForLookup(getPath(got.table, got.ino)) = normalizeForLookup(new)
           /\ oldKey \in DOMAIN before.m_pathToInode
                => getOrCreate(after, new).ino = before.m_pathToInode[oldKey]
           /\ \A k \in Below(before, old) :
                LET ino == before.m_pathToInode[k] IN
                /\ normalizeForLookup(getPath(after, ino))
                     = normalizeForLookup(new \o Rest(k, old))
                /\ getOrCreate(after, new \o Rest(k, old)).ino = ino ]_vars

(* ------------------------- lookups and their inodes --------------------- *)
\* The workers look names up at the root, in either case, while the
\* controller's thread swaps the tree: a is known (inode 2), d is not yet.
LookupCalls ==
  {Call("lookup", joinPath(<<>>, name), <<>>, 0, 0, <<>>) :
     name \in {<<"a">>, <<"A">>, <<"d">>, <<"D">>}}

BeginLookup(t) == Start(t, IF t \in Workers THEN LookupCalls ELSE Calls(t))

NextLookups ==
  \E t \in Threads :
    \/ BeginLookup(t) \/ LockShared(t) \/ LockUnique(t) \/ TreeRead(t) \/ TreeWrite(t)
    \/ HostIo(t)

SpecLookups == InitConc /\ [][NextLookups]_vars

\* the lookups that have replied
Answered == {t \in Workers : thr[t].op = "idle" /\ thr[t].out.op = "lookup"
                                                  /\ thr[t].out.err = "OK"}

\* C16: for every path that resolves in the current tree, every lookup of
\* it, under any spelling that differs in letter case or slash direction
\* only and from any thread (two first lookups at the same time included),
\* returns the same inode, and rebuild and flushStagingLive leave that
\* inode as it is even when the node behind the path becomes another
\* source's file.
LookupsAgree ==
  \A t \in Answered :
    /\ \A u \in Answered :
         normalizeForLookup(thr[u].out.path) = normalizeForLookup(thr[t].out.path)
           => thr[u].out.ino = thr[t].out.ino
    /\ \A q \in Spellings(thr[t].out.path) :
         LET again == mo2_lookup(Cur, 1, q).r IN
         again.err = "OK" => again.ino = thr[t].out.ino

\* two workers have been answered for a and for A, after a rebuild put the
\* mod's file A behind the path
LookedUpAcrossRebuild ==
  /\ thr["w1"].out.op = "lookup" /\ thr["w2"].out.op = "lookup"
  /\ thr["w1"].out.ino = 2 /\ thr["w2"].out.ino = 2
  /\ thr["w1"].out.path # thr["w2"].out.path
  /\ ctx.tree.nodes[<<"a">>].origin = "mA"

(* --------------------------------- unlink ------------------------------- *)
\* an unlink that got as far as the overwrite manager
UnlinkStep == ctl.m_mounted /\ reply'.op = "unlink" /\ reply'.err # "ENOENT"

CreateReadUnlink(c, parent, name) ==
  LET cr == mo2_create(c, parent, name, "none")
      rd == mo2_read(cr.c, cr.r.fh, MaxOff + 1, 0)
      rl == mo2_release(rd.c, cr.r.fh)
      ul == mo2_unlink(rl.c, parent, name)
  IN [create |-> cr.r, read |-> rd.r, release |-> rl.r, unlink |-> ul.r, c |-> ul.c]

\* the lookup reply, by what the host sees of it
Seen(r) == [err |-> r.err, ino |-> r.ino, is_dir |-> r.is_dir, size |-> r.size]

NoTraceOf(c, relative) ==
  /\ ~Exists(c.disk, stagingPath(c.overwrite, relative))
  /\ ~Exists(c.disk, overwritePath(c.overwrite, relative))

Creatable ==
  {pn \in Inos \X Names :
     /\ HostOk(pn[1], pn[2])
     /\ inodeToPath(Cur, pn[1]).ok
     /\ ctx.next_fh <= MaxHandles
     /\ mo2_create(Cur, pn[1], pn[2], "none").r.err = "OK"}

Fresh ==
  {pn \in Inos \X Names :
     /\ HostOk(pn[1], pn[2])
     /\ inodeToPath(Cur, pn[1]).ok
     /\ ctx.next_fh <= MaxHandles
     /\ NoTraceOf(Cur, joinPath(inodeToPath(Cur, pn[1]).path, pn[2]))
     /\ mo2_lookup(Cur, pn[1], pn[2]).r.err = "ENOENT"}

StaleIno == ctx.inodes.m_nextInode
StaleFh == ctx.next_fh

\* the buffers of the host: room for one entry, for two, and for all
BufSizes == {32, 64, 128}

ReaddirOf(offs, sizes) ==
  Live /\ \E ino \in Inos, off \in offs, size \in sizes :
            \E order \in Orders(listChildrenSnapshot(Cur, inodeToPath(Cur, ino).path).children) :
              Apply(mo2_readdir(Cur, ino, size, off, order))

Readdir == ReaddirOf({0, 2}, {128})

\* the host calls with an inode or a handle the adapter does not know
Stale ==
  /\ Live
  /\ \/ Apply(mo2_lookup(Cur, StaleIno, <<"a">>))
     \/ Apply(mo2_getattr(Cur, StaleIno))
     \/ Apply(mo2_readdir(Cur, StaleIno, 128, 0, <<>>))
     \/ Apply(mo2_open(Cur, StaleIno, O_RDWR, "none"))
     \/ Apply(mo2_create(Cur, StaleIno, <<"a">>, "none"))
     \/ Apply(mo2_mkdir(Cur, StaleIno, <<"a">>))
     \/ Apply(mo2_unlink(Cur, StaleIno, <<"a">>))
     \/ Apply(mo2_rename(Cur, StaleIno, <<"a">>, 1, <<"d">>, 0))
     \/ Apply(mo2_rename(Cur, 1, <<"a">>, StaleIno, <<"d">>, 0))
     \/ Apply(mo2_setattr(Cur, StaleIno, 0, TRUE, 0, "none"))
     \/ Apply(mo2_read(Cur, StaleFh, MaxOff + 1, 0))
     \/ Apply(mo2_write(Cur, StaleFh, <<1>>, 0))

NextStale ==
  \/ Mount \/ Rebuild \/ Lookup \/ Getattr \/ Readdir \/ Open \/ Read \/ Write
  \/ Create \/ Unlink \/ Rename \/ Stale

SpecStale == Init /\ [][NextStale]_vars

\* a call has failed for a missing inode, for an unknown handle, or for a
\* write through a handle that is not writable
FailedStep ==
  \/ /\ reply'.op \in {"lookup", "getattr", "readdir", "open", "create", "mkdir",
                       "unlink", "rename", "setattr"}
     /\ reply'.err = "ENOENT"
  \/ reply'.op \in {"read", "write"} /\ reply'.err = "EBADF"
  \/ reply'.op = "write" /\ reply'.err = "EACCES"

\* C19: an operation that fails because of a missing inode (lookup,
\* getattr, readdir, open, create, mkdir, unlink, rename, setattr), of an
\* unknown handle (read, write) or of a write through a handle that is not
\* writable leaves the tree, the inode table, the open-handle map, the
\* staging directory and the overwrite directory as they were before the
\* call.  Every NoEntry reply of the nine is covered, whatever caused it.
FailureChangesNothing ==
  [][FailedStep => ctx' = ctx /\ disk' = disk]_vars

\* one call of each kind has been turned away: a write through a handle
\* opened for reading
WriteRefusedOnReadHandle ==
  /\ reply.op = "write" /\ reply.err = "EACCES"
  /\ reply.fh \in DOMAIN ctx.open_files
  /\ ~ctx.open_files[reply.fh].writable


(* ----------------------- inodes whose path is gone --------------------- *)
\* the inode is unknown to the table, or the tree no longer resolves its path
Gone(ino) ==
  \/ ~inodeToPath(Cur, ino).ok
  \/ ~snapshotForPath(Cur, inodeToPath(Cur, ino).path).found

\* C20: lookup, getattr, readdir and open report NoEntry when the inode is
\* unknown to the inode table or when its path no longer resolves in the
\* current tree (an unlink, a rename or a rebuild removed it); open on a
\* directory reports NoEntry as well.
GoneIsNoEntry ==
  ctl.m_mounted =>
    \A ino \in (Inos \cup {StaleIno}) \ {1} :
      /\ Gone(ino) =>
           /\ \A name \in Names : mo2_lookup(Cur, ino, name).r.err = "ENOENT"
           /\ mo2_getattr(Cur, ino).r.err = "ENOENT"
           /\ mo2_readdir(Cur, ino, 128, 0, <<>>).r.err = "ENOENT"
           /\ mo2_open(Cur, ino, O_RDONLY, "none").r.err = "ENOENT"
      /\ snapshotForPath(Cur, inodeToPath(Cur, ino).path).is_directory =>
           mo2_open(Cur, ino, O_RDONLY, "none").r.err = "ENOENT"


(* ---------------------------- rename refused ---------------------------- *)
\* neither staging nor overwrite has anything at the relative path
NothingToMove(relative) ==
  /\ ~Exists(disk, stagingPath(Cur.overwrite, relative))
  /\ ~Exists(disk, overwritePath(Cur.overwrite, relative))

\* C21: rename rejects flags other than zero with Invalid, a source path
\* the tree does not resolve with NoEntry, and a source that has no file
\* or directory in staging or overwrite with AccessDenied; in each of the
\* three the tree, the inode table and what staging and overwrite hold are
\* as before the call.
RenameRefusals ==
  [][(ctl.m_mounted /\ reply'.op = "rename") =>
       LET old == reply'.path IN
       /\ \A parent \in Inos, name \in Names :
            mo2_rename(Cur, parent, name, 1, <<"d">>, 1).r.err = "EINVAL"
       /\ reply'.err \in {"EINVAL", "ENOENT"} => ctx' = ctx /\ disk' = disk
       /\ (old # <<>> /\ ~snapshotForPath(Cur, old).found) => reply'.err = "ENOENT"
       /\ (old # <<>> /\ snapshotForPath(Cur, old).found /\ NothingToMove(old))
            => reply'.err = "EACCES" /\ ctx' = ctx /\ disk' = disk]_vars

\* a rename of a file that only the stock data directory has was refused
RenameRefusedBaseFile ==
  /\ reply.op = "rename" /\ reply.err = "EACCES"
  /\ snapshotForPath(Cur, reply.path).is_backing
  /\ NothingToMove(reply.path)


(* ------------------------------ open to read ---------------------------- *)
\* C22: an open with read-only flags on a file of the stock data directory
\* only reads: it creates no file and no directory in staging or overwrite,
\* leaves the tree node (real_path, size, is_backing) as it is, and records
\* a handle that reuses the node's relative real_path, with is_backing true
\* and writable false.
OpenToReadIsPure ==
  [][ ( /\ reply'.op = "open" /\ reply'.err = "OK"
        /\ snapshotForPath(Cur, reply'.path).is_backing
        /\ ~ctx'.open_files[reply'.fh].writable )
      => LET node == snapshotForPath(Cur, reply'.path) IN
         /\ disk' = disk
         /\ ctx'.tree = ctx.tree /\ ctx'.inodes = ctx.inodes
         /\ snapshotForPath(Cur', reply'.path) = node
         /\ reply'.fh \notin DOMAIN ctx.open_files
         /\ ctx'.open_files[reply'.fh] = OpenFile(node.real_path, FALSE, TRUE, reply'.path)
         /\ node.real_path.root = "rel" ]_vars

\* a stock file is open for reading and staging holds nothing
OpenedBaseToRead ==
  /\ reply.op = "open" /\ reply.err = "OK"
  /\ ~ctx.open_files[reply.fh].writable /\ ctx.open_files[reply.fh].is_backing
  /\ snapshotForPath(Cur, reply.path).is_backing
  /\ Staged(disk, "st") \subseteq {<<>>}


(* -------------------------------- readdir ------------------------------- *)
\* a listing in pieces: the host resumes where the last reply ended, with
\* buffers of any of the sizes, while directories are looked up and files
\* are created
ReaddirResume == ReaddirOf(0..4, BufSizes)

NextReaddir == Mount \/ Lookup \/ Create \/ ReaddirResume

SpecReaddir == Init /\ [][NextReaddir]_vars

\* the inodes of directories the tree resolves, and their children
Listable ==
  {ino \in Inos : /\ inodeToPath(Cur, ino).ok
                  /\ listChildrenSnapshot(Cur, inodeToPath(Cur, ino).path).ok}
ChildrenOf(ino) == listChildrenSnapshot(Cur, inodeToPath(Cur, ino).path).children

\* C23, as stated: for a directory with n children, readdir with an offset
\* equal to n, and a buffer that takes every entry, returns an empty reply.
ReaddirAtChildCount ==
  ctl.m_mounted =>
    \A ino \in Listable : \A order \in Orders(ChildrenOf(ino)) :
      LET r == mo2_readdir(Cur, ino, 128, Cardinality(ChildrenOf(ino)), order).r
      IN r.err = "OK" /\ r.data = <<>>

\* C23, amended: for a directory with n children, readdir with an offset
\* equal to n + 2, the number of entries with "." and ".." counted, returns
\* an empty reply, whatever the buffer.
ReaddirAtEntryCount ==
  ctl.m_mounted =>
    \A ino \in Listable : \A order \in Orders(ChildrenOf(ino)) : \A size \in BufSizes :
      LET r == mo2_readdir(Cur, ino, size, Cardinality(ChildrenOf(ino)) + 2, order).r
      IN r.err = "OK" /\ r.data = <<>>

\* the root has two children and a readdir of it came back empty: it was
\* called with the offset 4
ReaddirCameBackEmpty ==
  /\ reply.op = "readdir" /\ reply.err = "OK" /\ reply.ino = 1 /\ reply.data = <<>>
  /\ Cardinality(ChildrenOf(1)) = 2


RECURSIVE bytesOf(_)
bytesOf(data) ==
  IF data = <<>> THEN 0 ELSE direntSize(data[1].name) + bytesOf(Tail(data))

\* the replies of successive calls, each resuming at the offset of the last
\* entry of the one before, until a reply is empty
RECURSIVE readAll(_, _, _, _, _, _)
readAll(c, ino, size, off, order, calls) ==
  LET res == mo2_readdir(c, ino, size, off, order) IN
  IF calls = 0 \/ res.r.err # "OK" \/ res.r.data = <<>> THEN <<>>
  ELSE res.r.data
         \o readAll(res.c, ino, size, res.r.data[Len(res.r.data)].off, order, calls - 1)

\* C24: a readdir reply never exceeds the size the host gives: the
\* serialization starts at the entry of index offset, stops at the first
\* entry that does not fit, and tags entry i with the offset i + 1, so
\* that, the directory staying as it is, successive calls that resume at
\* the returned offsets return ".", ".." and every child once each, and
\* then an empty reply.
ReaddirResumes ==
  ctl.m_mounted =>
    \A ino \in Listable : \A order \in Orders(ChildrenOf(ino)) : \A size \in BufSizes :
      LET n     == Cardinality(ChildrenOf(ino))
          names == <<".", "..">> \o [k \in 1..n |-> order[k][1]]
          all   == readAll(Cur, ino, size, 0, order, n + 3)
      IN /\ \A off \in 0..(n + 2) :
              LET data == mo2_readdir(Cur, ino, size, off, order).r.data IN
              /\ bytesOf(data) <= size
              /\ \A k \in DOMAIN data :
                   data[k].name = names[off + k] /\ data[k].off = off + k
              /\ off + Len(data) < n + 2
                   => bytesOf(data) + direntSize(names[off + Len(data) + 1]) > size
         /\ [k \in DOMAIN all |-> all[k].name] = names
         /\ mo2_readdir(Cur, ino, size, Len(all), order).r.data = <<>>

\* a listing of the root was resumed at offset 2 with room for one entry:
\* the reply holds one child, tagged 3
ReaddirResumed ==
  /\ reply.op = "readdir" /\ reply.err = "OK" /\ reply.ino = 1
  /\ Len(reply.data) = 1 /\ reply.data[1].off = 3
  /\ Cardinality(ChildrenOf(1)) = 2


(* --------------------------- unmount, step by step ---------------------- *)
\* The service thread runs fuse_session_loop_mt: it hands requests to the
\* workers while the session runs, and returns, which is what the join
\* waits for, when the session was asked to exit and the workers have
\* finished the requests they were at.
BeginServed(t) ==
  /\ t \in Workers /\ ctl.m_session = "running" /\ ctl.m_fuseThread = "running"
  /\ Start(t, WriteCalls)

BeginUnmount(t) ==
  t = "gui" /\ Start(t, {Call("unmount", <<>>, <<>>, 0, 0, <<>>)})

Returned(t, err) ==
  /\ thr' = [thr EXCEPT ![t] = [IdleThread EXCEPT !.out = Reply(thr[t].op, err)]]
  /\ UNCHANGED <<reply, fault, nops, lock, hist>>

\* the steps of FuseConnector::unmount but the fold, which is a step of
\* its own (flushStaging)
UnmountStep(t) ==
  LET step == Step(t)
      on   == thr' = [thr EXCEPT ![t].pc = @ + 1]
                /\ UNCHANGED <<reply, fault, nops, lock, hist>>
  IN /\ thr[t].op = "unmount"
     /\ \/ /\ step = "m_mounted" /\ ~ctl.m_mounted
           /\ Returned(t, "OK") /\ UNCHANGED <<disk, ctx, ctl>>
        \/ /\ step = "m_mounted" /\ ctl.m_mounted
           /\ on /\ UNCHANGED <<disk, ctx, ctl>>
        \/ /\ step = "session_exit"
           /\ ctl' = [ctl EXCEPT !.m_session = IF @ = "none" THEN @ ELSE "exited"]
           /\ on /\ UNCHANGED <<disk, ctx>>
        \/ /\ step = "join"
           /\ ctl.m_fuseThread = "running" =>
                ctl.m_session = "exited" /\ \A w \in Workers : thr[w].op = "idle"
           /\ ctl' = [ctl EXCEPT !.m_fuseThread = "none"]
           /\ on /\ UNCHANGED <<disk, ctx>>
        \/ /\ step = "session_destroy"
           /\ ctl' = [ctl EXCEPT !.m_session = "none"]
           /\ on /\ UNCHANGED <<disk, ctx>>
        \/ /\ step = "close"
           /\ ctl' = [ctl EXCEPT !.m_backingFd = "none"]
           /\ on /\ UNCHANGED <<disk, ctx>>
        \/ /\ step = "reset"
           /\ ctx' = CtxOf(NoContext @@ [disk |-> disk])
           /\ ctl' = [ctl EXCEPT !.m_mounted = FALSE]
           /\ Returned(t, "OK") /\ UNCHANGED disk

NextUnmount ==
  \E t \in Threads :
    \/ BeginServed(t) \/ BeginUnmount(t) \/ UnmountStep(t)
    \/ LockUnique(t) \/ TreeWrite(t) \/ HostIo(t)

SpecUnmount == InitConc /\ [][NextUnmount]_vars

\* the fold of unmount and what follows it
AfterJoin == {"session_destroy", "flushStaging", "close", "reset"}

\* C25: unmount does nothing when nothing is mounted, so that a second
\* call changes nothing; within one unmount the session is asked to exit
\* and the target unmounted first, then the service thread is joined, and
\* only after the join is staging folded into overwrite, the backing
\* handle closed and the context released: no adapter callback runs during
\* or after the fold.
UnmountInOrder ==
  /\ [](Step("gui") \in AfterJoin =>
          /\ ctl.m_fuseThread = "none"
          /\ \A w \in Workers : thr[w].op = "idle")
  /\ [](~ctl.m_mounted => \A w \in Workers : thr[w].op = "idle")
  /\ [][ /\ (Step("gui") = "m_mounted" /\ ~ctl.m_mounted /\ thr'["gui"] # thr["gui"])
              => disk' = disk /\ ctx' = ctx /\ ctl' = ctl /\ thr'["gui"].op = "idle"
         /\ (Step("gui") = "join" /\ thr'["gui"] # thr["gui"]) => ctl.m_session = "exited"
         /\ (Step("gui") = "flushStaging" /\ thr'["gui"] # thr["gui"])
              => ctl.m_backingFd # "none" /\ ctx.backing_dir_fd # "none"
                   /\ disk' = flushStaging(ctl, disk, NoFaults(disk, ctl.m_stagingDir)) ]_vars

\* a second unmount has returned at once: nothing is mounted, staging is
\* folded, and a write had been served before the first one
UnmountedTwice ==
  /\ ~ctl.m_mounted /\ nops = 3
  /\ thr["gui"].op = "idle" /\ thr["gui"].out.op = "unmount"
  /\ \E w \in Workers : thr[w].out.op = "write" /\ thr[w].out.err = "OK"
  /\ ~Exists(disk, Loc("st", <<>>))


(* ------------------------- mounts that may fail -------------------------- *)
\* the data directories a mount is asked for: the stock one, and one that
\* is not on the disk
DataDirs == {"base", "gone"}

\* the cell after unmount of the controller k, and after a mount of it that
\* came to res: written when the mount succeeds, cleared by the unmount
cellAfterUnmount(cell, k) == IF k.m_mounted THEN "none" ELSE cell
cellAfterMount(cell, k, res) ==
  IF res.ok THEN res.k.m_mountPoint ELSE cellAfterUnmount(cell, k)

getFuseMountPointForCrashCleanup(cell) == cell

\* a variant that runs the unmount binary whatever the cell holds
emergencyFuseUnmount_always(cell) == "base"

\* emergencyFuseUnmount: the mount point it hands to fusermount -uz, "none"
\* when it returns without a fork
emergencyFuseUnmount(cell) ==
  LET mp == getFuseMountPointForCrashCleanup(cell) IN
  IF mp = "none" THEN "none" ELSE mp

\* FuseConnector::mount, mounted or not, under any answers of the host; the
\* answers are kept in fault, the outcome in reply; it counts as one
\* operation
MountAttempt ==
  /\ nops < MaxOps
  /\ \E data_dir \in DataDirs, mods \in MountLists, h \in HostAnswers :
    LET res == mountUnder(ctl, Cur, "ov", data_dir, mods, FALSE, h) IN
    /\ disk' = res.c.disk
    /\ ctx' = CtxOf(res.c)
    /\ ctl' = res.k
    /\ reply' = Reply("mount", IF res.ok THEN "OK" ELSE "MountFailed")
    /\ fault' = [cow |-> "none", fold |-> <<>>, host |-> h]
    /\ nops' = nops + 1
    /\ hist' = [hist EXCEPT !.cell = cellAfterMount(@, ctl, res)]
    /\ UNCHANGED <<thr, lock>>

\* FuseConnector::unmount, mounted or not
UnmountAttempt ==
  /\ nops < MaxOps
  /\ LET res == unmount(ctl, Cur, NoFaults(disk, ctl.m_stagingDir)) IN
     /\ disk' = res.c.disk
     /\ ctx' = CtxOf(res.c)
     /\ ctl' = res.k
     /\ reply' = Reply("unmount", "OK")
     /\ hist' = [hist EXCEPT !.cell = cellAfterUnmount(@, ctl)]
     /\ nops' = nops + 1
     /\ UNCHANGED <<fault, thr, lock>>

\* the crash or terminate handler runs: reply.path is the mount point handed
\* to the unmount binary, reply.err tells whether there was one
Crash ==
  /\ nops < MaxOps
  /\ LET mp == emergencyFuseUnmount(hist.cell) IN
     reply' = [Reply("emergencyFuseUnmount", IF mp = "none" THEN "none" ELSE "OK")
                 EXCEPT !.path = mp]
  /\ nops' = nops + 1
  /\ UNCHANGED <<disk, ctx, ctl, fault, thr, lock, hist>>

NextMount ==
  MountAttempt \/ UnmountAttempt \/ Crash \/ FlushStagingLive \/ Lookup \/ Create

SpecMount == Init /\ [][NextMount]_vars

\* C26: a mount fails with MountFailed when the data directory does not
\* exist, when the backing handle cannot be opened, when the host session
\* cannot be created or attached, and when the target is still a mount point
\* after the stale-mount recovery; after a failed mount the controller is not
\* mounted, no service thread runs and the backing handle is closed
MountFailsAsStated ==
  reply.op = "mount" =>
    /\ ( \/ ctl.m_dataDirPath = "gone"
         \/ ~fault.host.open
         \/ ~fault.host.session_new
         \/ ~fault.host.session_mount
         \/ fault.host.stale ) => reply.err = "MountFailed"
    /\ reply.err = "MountFailed" =>
         /\ ~ctl.m_mounted
         /\ ctl.m_fuseThread = "none"
         /\ ctl.m_backingFd = "none"


(* ------------------- a mutation carried across a restart ------------------ *)
\* lookup of a relative path through the adapter, one component at a time
\* from the root inode: the last reply, and the context after it
RECURSIVE lookupPath(_, _, _)
lookupPath(c, parent, comps) ==
  LET lk == mo2_lookup(c, parent, <<Head(comps)>>) IN
  IF lk.r.err # "OK" \/ Len(comps) = 1 THEN lk
  ELSE lookupPath(lk.c, lk.r.ino, Tail(comps))

\* open of ino for writing, a write of one byte at off, release, then
\* flushStagingLive, unmount and mount with the same directories and mods,
\* then lookup, open and read of the same path through the new mount
WriteFlushRemount(k, c, ino, off, rev) ==
  LET relative == inodeToPath(c, ino).path
      op == mo2_open(c, ino, O_RDWR, "none")
      wr == mo2_write(op.c, op.r.fh, <<1>>, off)
      rd == mo2_read(wr.c, op.r.fh, MaxOff + 2, 0)
      rl == mo2_release(rd.c, op.r.fh)
      fl == flushStagingLive(k, rl.c, NoFaults(rl.c.disk, k.m_stagingDir), rev)
      um == unmount(fl.k, fl.c, NoFaults(fl.c.disk, fl.k.m_stagingDir))
      mt == mount(um.k, um.c, k.m_overwriteDir, k.m_dataDirPath, k.m_lastMods, rev)
      lk == lookupPath(mt.c, 1, splitPath(relative))
      o2 == mo2_open(lk.c, lk.r.ino, O_RDONLY, "none")
      r2 == mo2_read(o2.c, o2.r.fh, MaxOff + 2, 0)
  IN [open |-> op.r, write |-> wr.r, mutated |-> rd.r.data, k |-> mt.k, c |-> r2.c,
      lookup |-> lk.r, reopen |-> o2.r, read |-> r2.r,
      over |-> overwritePath(mt.c.overwrite, relative)]

\* the inodes of the files the tree takes from the stock data directory
BaseFiles == {ino \in Inos : inodeToPath(Cur, ino).ok
                             /\ snapshotForPath(Cur, inodeToPath(Cur, ino).path).is_backing}

\* the restart is tried from what mounts, rebuilds, lookups, creates and
\* live flushes lead to
NextRestart == Mount \/ Rebuild \/ Lookup \/ Create \/ FlushStagingLive

SpecRestart == Init /\ [][NextRestart]_vars

Respelled(c, relative) ==
  {rel \in DOMAIN c.disk[c.overwrite.m_stagingDir]
            \cup DOMAIN c.disk[c.overwrite.m_overwriteDir] :
     rel # splitPath(relative) /\ Keys(rel) = Keys(splitPath(relative))}

SourceOf(c, node) ==
  IF node.is_backing /\ c.backing_dir_fd # "none" /\ node.real_path.root = "rel"
    THEN Loc(c.backing_dir_fd, node.real_path.rel)
    ELSE AbsLoc(node.real_path)

\* the projected view: for every path the tree resolves, whether it is a
\* directory and, for a file, its size and the bytes a read gives
View(c) ==
  [key \in DOMAIN c.tree.nodes |->
     LET node == c.tree.nodes[key] IN
     IF node.is_directory THEN [is_directory |-> TRUE, size |-> 0, bytes |-> <<>>]
     ELSE [is_directory |-> FALSE, size |-> node.size,
           bytes |-> IF IsFile(c.disk, SourceOf(c, node))
                       THEN Bytes(c.disk, SourceOf(c, node)) ELSE <<>>]]

\* the paths whose node refers to a file of the staging directory
StagedKeys(c) ==
  {key \in DOMAIN c.tree.nodes :
     /\ ~c.tree.nodes[key].is_directory
     /\ c.tree.nodes[key].real_path.root = c.overwrite.m_stagingDir}

\* C29: flushStagingLive preserves the projected view: every path resolves
\* after the call as it did before it, to the same kind, size and bytes, and
\* every path whose node referred to a staging file resolves afterwards to the
\* copy in the overwrite directory, with the same bytes.
FlushLivePreservesView ==
  [][reply'.op = "flushStagingLive" =>
       /\ View(Cur') = View(Cur)
       /\ \A key \in StagedKeys(Cur) :
            /\ key \in DOMAIN ctx'.tree.nodes
            /\ ctx'.tree.nodes[key].real_path =
                 Loc(ctl.m_overwriteDir, ctx.tree.nodes[key].real_path.rel)]_vars


(* ------------------------- renaming a directory -------------------------- *)
\* the files the tree resolves below the directory at comps, by their paths
\* relative to it
FilesUnder(c, comps) ==
  {SubSeq(key, Len(comps) + 1, Len(key)) :
     key \in {k \in DOMAIN c.tree.nodes :
                /\ IsStrictPrefix(Keys(comps), k)
                /\ ~c.tree.nodes[k].is_directory
                /\ Resolves(c.tree.nodes, k)}}

\* a rename of a directory was replied OK in this step
RenamedDirectory ==
  /\ reply'.op = "rename" /\ reply'.err = "OK"
  /\ snapshotForPath(Cur, reply'.path).is_directory

\* C30: after a successful rename of a directory old -> new, every file that
\* resolved at old/d resolves at new/d, to a file that is on the disk, and
\* the set of files under new is the set that was under old.
DirRenameCarriesFiles ==
  [][ RenamedDirectory =>
        LET old == splitPath(reply'.path)
            new == splitPath(reply'.data)
        IN /\ \A d \in FilesUnder(Cur, old) :
                LET res == resolve(ctx'.tree.nodes, new \o d) IN
                /\ res.found /\ ~res.node.is_directory
                /\ IsFile(disk', SourceOf(Cur', res.node))
           /\ FilesUnder(Cur', new) = FilesUnder(Cur, old) ]_vars


(* ------------------------ what an unlink leaves behind -------------------- *)
\* the context in which name under parent has been looked up and opened for
\* writing, which copies a file of the overwrite directory into staging
OpenedForWrite(c, parent, name) ==
  LET lk == mo2_lookup(c, parent, name)
      op == mo2_open(lk.c, lk.r.ino, O_RDWR, "none")
  IN IF lk.r.err = "OK" /\ ~lk.r.is_dir /\ op.r.err = "OK" THEN op.c ELSE c

\* C31: after unlink(p) replies success no file at the relative path p is
\* left in the staging directory or in the overwrite directory, however p
\* came to have one there (here: as the state has it, or after an open for
\* writing that copies it on write), so that a flushStagingLive after it
\* does not resolve p to a file of either directory again.
UnlinkLeavesNoShadow ==
  ctl.m_mounted =>
    \A parent \in Inos, name \in Names, cow \in BOOLEAN :
      LET c0       == IF cow THEN OpenedForWrite(Cur, parent, name) ELSE Cur
          ul       == mo2_unlink(c0, parent, name)
          relative == ul.r.path
          fl       == flushStagingLive(ctl, ul.c, NoFaults(ul.c.disk, ctl.m_stagingDir), FALSE)
          snap     == snapshotForPath(fl.c, relative)
      IN HostOk(parent, name) /\ ul.r.err = "OK" =>
           /\ ~IsFile(ul.c.disk, stagingPath(Cur.overwrite, relative))
           /\ ~IsFile(ul.c.disk, overwritePath(Cur.overwrite, relative))
           /\ ~(snap.found /\ snap.real_path.root \in {ctl.m_stagingDir, ctl.m_overwriteDir})


(* ------------------- a write through a handle that outlived its path ------ *)
\* C32: after unlink(p) or rename(p -> q) has replied success and p no longer
\* resolves, a write through a handle that was opened on p before does not
\* create a file at p in the staging directory again and does not insert p
\* into the tree again: lookup(p) still reports ENOENT after the write.
WriteKeepsPathGone ==
  LET p == reply.path IN
  /\ Live /\ reply.op \in {"unlink", "rename"} /\ reply.err = "OK"
  /\ ~snapshotForPath(Cur, p).found
  /\ ~IsFile(Cur.disk, stagingPath(Cur.overwrite, p))
  => \A fh \in DOMAIN Cur.open_files, off \in 0..MaxOff :
       LET wr == mo2_write(Cur, fh, <<1>>, off)
           lk == lookupPath(wr.c, 1, splitPath(p))
       IN Cur.open_files[fh].relative_path = p =>
            /\ ~IsFile(wr.c.disk, stagingPath(Cur.overwrite, p))
            /\ lk.r.err = "ENOENT"


(* ------------------- the manager pointer and its replacement -------------- *)
\* the step at which a handler calls through ctx->overwrite
UsesOverwrite(t) == Step(t) = "io" /\ thr[t].op \in {"create", "unlink", "mkdir", "rename"}
\* the step at which flushStagingLive assigns a new manager to ctx->overwrite
ReplacesOverwrite(t) == Step(t) = "overwrite"
HoldsTreeMutex(t) == lock.writer = t \/ t \in lock.readers

\* C33: every access of a callback to the overwrite manager is ordered with
\* its replacement by flushStagingLive: no state has one thread about to
\* assign the pointer and another about to call through it unless one of the
\* two holds the tree mutex and so keeps the other out.
OverwriteAccessOrdered ==
  \A t \in Threads, u \in Threads :
    t # u /\ ReplacesOverwrite(t) /\ UsesOverwrite(u) =>
      HoldsTreeMutex(t) \/ HoldsTreeMutex(u)


(* ------------------- mutations under another spelling --------------------- *)
\* C34: unlink and rename find their target as lookup does, whatever the case
\* of the name: when lookup(parent, n) resolves to a file held in staging or
\* overwrite and n2 differs from n only in case, unlink(parent, n2) replies
\* success and the file is gone from the disk and from the tree, and
\* rename(parent, n2, ...) to a place where rename(parent, n, ...) succeeds
\* replies success and takes the file away from its old place.
MutationsIgnoreCase ==
  Live =>
    \A parent \in Inos, name \in Names, newname \in Names :
      \A n2 \in Spellings(name) \ {name} :
        LET relative == joinPath(inodeToPath(Cur, parent).path, name)
            snap     == snapshotForPath(Cur, relative)
            held     == AbsLoc(snap.real_path)
            ul       == mo2_unlink(Cur, parent, n2)
            rn       == mo2_rename(Cur, parent, name, 1, newname, 0)
            rn2      == mo2_rename(Cur, parent, n2, 1, newname, 0)
        IN /\ HostOk(parent, name) /\ HostOk(parent, n2)
           /\ mo2_lookup(Cur, parent, name).r.err = "OK"
           /\ ~snap.is_directory
           /\ snap.real_path.root \in {Cur.overwrite.m_stagingDir,
                                       Cur.overwrite.m_overwriteDir}
           => /\ ul.r.err = "OK"
              /\ ~IsFile(ul.c.disk, held)
              /\ ~snapshotForPath(ul.c, relative).found
              /\ (HostOk(1, newname) /\ rn.r.err = "OK" /\ Keys(splitPath(newname)) # Keys(splitPath(relative))
                    => rn2.r.err = "OK" /\ ~IsFile(rn2.c.disk, held))


(* ------------------- a rebuild onto another overwrite directory ----------- *)
\* a second instance beside the first: its overwrite directory ov2 holds the
\* file a, its staging directory st2 is not there yet
InitProfile ==
  /\ disk = World(<<>>) @@ [ov2 |-> EmptyDir @@ (<<"a">> :> FileEntry(<<8>>)), st2 |-> <<>>]
  /\ ctx = NoContext
  /\ ctl = NewConnector
  /\ reply = Reply("none", "OK")
  /\ fault = NoFault
  /\ nops = 0
  /\ thr = [t \in Threads |-> IdleThread]
  /\ lock = NewLock
  /\ hist = NewHist

\* the controller rebuilds with the overwrite directory of either instance
RebuildOnto ==
  /\ Live
  /\ \E mods \in MountLists, overwrite_dir \in {"ov", "ov2"} :
       Control(rebuild(ctl, Cur, mods, overwrite_dir, FALSE), "rebuild")

NextProfile == Mount \/ RebuildOnto \/ FlushStagingLive \/ Lookup \/ Create \/ Unlink

SpecProfile == InitProfile /\ [][NextProfile]_vars

\* the directory the files of the tree's overwrite layer were read from
ComposedOverwrite ==
  {ctx.tree.nodes[K].real_path.root :
     K \in {P \in DOMAIN ctx.tree.nodes : ctx.tree.nodes[P].origin = "Overwrite"}}

\* C35: while the mount is live, also after a rebuild with another
\* overwrite_dir, the directory composed as the overwrite layer, the
\* overwrite root of the adapter's manager and the target of the fold are
\* one directory, and the staging directory of the controller and of the
\* manager is VFS_staging beside it.
OneOverwriteDirectory ==
  ctl.m_mounted =>
    /\ ComposedOverwrite \subseteq {ctl.m_overwriteDir}
    /\ ctx.overwrite.m_overwriteDir = ctl.m_overwriteDir
    /\ ctl.m_stagingDir = StagingOf(ctl.m_overwriteDir)
    /\ ctx.overwrite.m_stagingDir = ctl.m_stagingDir


(* ------------------- a mount onto a stale mount point --------------------- *)
\* what an earlier mount that was never taken down still shows at the data
\* directory
StaleProjection ==
  EmptyDir @@ (<<"a">> :> FileEntry(<<9>>)) @@ (<<"z">> :> FileEntry(<<9, 9>>))

\* fault.host.stale: the data directory is a mount point when mount is called
InitStaleMount ==
  /\ disk = World(<<>>) @@ [stale |-> StaleProjection]
  /\ ctx = NoContext
  /\ ctl = NewConnector
  /\ reply = Reply("none", "OK")
  /\ \E stale \in BOOLEAN : fault = NoFault @@ [host |-> [HostFine EXCEPT !.stale = stale]]
  /\ nops = 0
  /\ thr = [t \in Threads |-> IdleThread]
  /\ lock = NewLock
  /\ hist = NewHist

\* isMountPoint
isMountPoint(f) == "host" \in DOMAIN f /\ f.host.stale
\* the directory a path of the host resolves to
Shown(f, dir) == IF isMountPoint(f) THEN "stale" ELSE dir

BeginMount(t) ==
  /\ t = "gui" /\ ~ctl.m_mounted /\ thr[t].op = "idle"
  /\ \E mods \in MountLists : thr' = [thr EXCEPT ![t] = Call("mount", <<>>, <<>>, 0, 0, mods)]
  /\ UNCHANGED <<disk, ctx, ctl, reply, fault, nops, lock, hist>>

\* tryCleanupStaleMount: the unmount commands take the stale mount down
tryCleanupStaleMount(f) ==
  IF isMountPoint(f) THEN [f EXCEPT !.host.stale = FALSE] ELSE f

\* one step of FuseConnector::mount(overwrite_dir = ov, data dir = base)
MountStep(t) ==
  LET me   == thr[t]
      step == Step(t)
      st   == StagingOf("ov")
      u    == unmount(ctl, Cur, NoFaults(disk, ctl.m_stagingDir))
      d1   == createDirectories(createDirectories(disk, Loc(st, <<>>)), Loc("ov", <<>>))
      new  == [disk |-> NewOverwriteManager(disk, ctl.m_stagingDir, ctl.m_overwriteDir),
               tree |-> me.tree, inodes |-> NewInodeTable,
               overwrite |-> [m_stagingDir |-> ctl.m_stagingDir,
                              m_overwriteDir |-> ctl.m_overwriteDir],
               open_files |-> <<>>, next_fh |-> 1, backing_dir_fd |-> ctl.m_backingFd]
      res  ==
        CASE step = "unmount" ->
               [d |-> u.c.disk, c |-> CtxOf(u.c), f |-> fault, me |-> me,
                k |-> [u.k EXCEPT !.m_overwriteDir = "ov", !.m_lastMods = me.mods,
                                  !.m_dataDirPath = "base", !.m_mountPoint = "base"]]
          [] step = "create_directories" ->
               [d |-> d1, c |-> ctx, f |-> fault, me |-> me,
                k |-> [ctl EXCEPT !.m_stagingDir = st]]
          [] step = "scanDataDir" ->
               [d |-> disk, c |-> ctx, f |-> fault, me |-> me,
                k |-> [ctl EXCEPT !.m_baseFileCache =
                                    scanDataDir(disk, Shown(fault, ctl.m_dataDirPath))]]
          [] step = "open" ->
               [d |-> disk, c |-> ctx, f |-> fault, me |-> me,
                k |-> [ctl EXCEPT !.m_backingFd = Shown(fault, ctl.m_dataDirPath)]]
          [] step = "tryCleanupStaleMount" ->
               [d |-> disk, c |-> ctx, f |-> tryCleanupStaleMount(fault), me |-> me,
                k |-> ctl]
          [] step = "buildDataDirVfs" ->
               [d |-> disk, c |-> ctx, f |-> fault, k |-> ctl,
                me |-> [me EXCEPT !.tree = buildDataDirVfs(ctl.m_baseFileCache, disk, me.mods,
                                                           ctl.m_overwriteDir, FALSE)]]
          [] step = "context" ->
               [d |-> new.disk, c |-> CtxOf(new), f |-> fault, me |-> me, k |-> ctl]
          [] step = "fuse_session_mount" ->
               [d |-> disk, c |-> ctx, f |-> fault, me |-> me,
                k |-> [ctl EXCEPT !.m_session = "running"]]
          [] step = "m_mounted" ->
               [d |-> disk, c |-> ctx, f |-> fault, me |-> me,
                k |-> [ctl EXCEPT !.m_mounted = TRUE, !.m_fuseThread = "running"]]
          [] OTHER -> [d |-> disk, c |-> ctx, f |-> fault, me |-> me, k |-> ctl]
  IN /\ me.op = "mount"
     /\ disk' = res.d /\ ctx' = res.c /\ ctl' = res.k /\ fault' = res.f
     /\ thr' = [thr EXCEPT ![t] =
                  IF step = "m_mounted" THEN [IdleThread EXCEPT !.out = Reply("mount", "OK")]
                  ELSE [res.me EXCEPT !.pc = @ + 1]]
     /\ UNCHANGED <<reply, nops, lock, hist>>

\* the host's calls keep the host's answers of the mount
Served(res) ==
  /\ disk' = res.c.disk /\ ctx' = CtxOf(res.c) /\ reply' = res.r /\ nops' = nops + 1
  /\ UNCHANGED <<ctl, fault, thr, lock, hist>>

NextStaleMount ==
  \/ \E t \in Threads : BeginMount(t) \/ MountStep(t)
  \/ Live /\ \E name \in Names \cup {<<"z">>} : Served(mo2_lookup(Cur, 1, name))
  \/ Live /\ ctx.next_fh <= MaxHandles /\ \E ino \in Inos : Served(mo2_open(Cur, ino, O_RDONLY, "none"))
  \/ Live /\ \E fh \in Handles : Served(mo2_read(Cur, fh, MaxOff + 1, 0))

SpecStaleMount == InitStaleMount /\ [][NextStaleMount]_vars

\* C36: when the data directory is a stale mount point at the time mount is
\* called, the recovery is over before the base scan runs and before the
\* backing handle is opened: at neither step is the directory still a mount
\* point, and once mounted the cached base entries are those of the stock
\* data directory and the backing handle is a handle on it.
StaleRecoveredFirst ==
  /\ thr["gui"].op = "mount" /\ Step("gui") \in {"scanDataDir", "open"}
       => ~isMountPoint(fault)
  /\ ctl.m_mounted =>
       /\ ctl.m_baseFileCache = scanDataDir(disk, ctl.m_dataDirPath)
       /\ ctl.m_backingFd = ctl.m_dataDirPath


(* ------------------------------- setattr ---------------------------------- *)
NextSetattr == Mount \/ Lookup \/ Open \/ Create \/ Setattr \/ Rename \/ Getattr

SpecSetattr == Init /\ [][NextSetattr]_vars

\* the sizes the host asks for
Sizes == {0, MaxOff + 1}

\* C37: a setattr with the size bit on a file that replies success has
\* truncated the file at the staging path of the inode's path to the size
\* asked for (after a copy-on-write where the file was elsewhere), its reply
\* reports that size and so does the getattr after it; a setattr without the
\* size bit leaves the tree, the handles and the disk as they are.
SetattrResizesStaged ==
  ctl.m_mounted =>
    \A ino \in Inos \ {1}, fi \in Handles \cup {0} :
      LET path   == inodeToPath(Cur, ino).path
          staged == AbsLoc(stagingPath(Cur.overwrite, path))
          plain  == mo2_setattr(Cur, ino, 0, FALSE, 0, "none")
      IN /\ plain.c = Cur
         /\ \A size \in Sizes :
              LET sa == mo2_setattr(Cur, ino, size, TRUE, fi, "none")
                  ga == mo2_getattr(sa.c, ino)
              IN sa.r.err = "OK" /\ ~sa.r.is_dir =>
                   /\ IsFile(sa.c.disk, staged)
                   /\ Len(Bytes(sa.c.disk, staged)) = size
                   /\ sa.r.size = size
                   /\ ga.r.err = "OK" /\ ga.r.size = size


\* a setattr has replied with the larger size on a file nobody had opened
\* for writing or created: the staged copy is its own copy-on-write
SetattrCopiedAndResized ==
  /\ reply.op = "setattr" /\ reply.err = "OK" /\ ~reply.is_dir
  /\ reply.size = MaxOff + 1
  /\ ctx.next_fh = 1
  /\ IsFile(disk, AbsLoc(stagingPath(Cur.overwrite, reply.path)))
  /\ Len(Bytes(disk, AbsLoc(stagingPath(Cur.overwrite, reply.path)))) = MaxOff + 1


(* ------------------- the tree on its own: inserts and removals ----------- *)
\* the component lists the tree is edited with
TreePaths ==
  {<<"a">>, <<"A">>, <<"d">>, <<"d", "a">>, <<"D", "A">>, <<"d", "d">>,
   <<"d", "D", "a">>, <<"d", "d", "d">>}
MaxEdits == MaxOps + 1

InitTree ==
  /\ disk = World(<<>>)
  /\ ctx = NoContext
  /\ ctl = NewConnector
  /\ reply = Reply("none", "OK")
  /\ fault = NoFault
  /\ nops = 0
  /\ thr = [t \in Threads |-> IdleThread]
  /\ lock = NewLock
  /\ hist = NewHist

Edited(nodes, op, components, ok) ==
  /\ ctx' = [ctx EXCEPT !.tree.nodes = nodes]
  /\ reply' = [Reply(op, IF ok THEN "OK" ELSE "false") EXCEPT !.path = components]
  /\ nops' = nops + 1
  /\ UNCHANGED <<disk, ctl, fault, thr, lock, hist>>

InsertFile ==
  /\ nops < MaxEdits
  /\ \E components \in TreePaths, root \in {"mA", "ov"} :
       Edited(insertFile(ctx.tree.nodes, components, Loc(root, components), 1,
                         "Overwrite", FALSE),
              "insertFile", components, TRUE)

InsertDirectory ==
  /\ nops < MaxEdits
  /\ \E components \in TreePaths :
       Edited(insertDirectory(ctx.tree.nodes, components), "insertDirectory",
              components, TRUE)

RemoveFromTree ==
  /\ nops < MaxEdits
  /\ \E components \in TreePaths \cup {<<>>} :
       LET rt == removeFromTree(ctx.tree.nodes, components) IN
       Edited(rt.nodes, "removeFromTree", components, rt.removed)

NextTree == InsertFile \/ InsertDirectory \/ RemoveFromTree

SpecTree == InitTree /\ [][NextTree]_vars

\* the ancestors of key path K that hold nothing but the way down to K
EmptiedBy(nodes, K) ==
  {A \in DOMAIN nodes :
     /\ IsStrictPrefix(A, K)
     /\ \A Q \in DOMAIN nodes :
          IsStrictPrefix(A, Q) => IsPrefix(K, Q) \/ IsStrictPrefix(Q, K)}

\* C38: removeFromTree(components) erases the target node with what is below
\* it and then every ancestor directory left without children, up to the
\* first ancestor that still has a child and never the root; every other
\* node is kept as it was and still resolves; where the path does not
\* resolve it returns false and the tree is unchanged.
RemoveErasesExactly ==
  [][ reply'.op = "removeFromTree" /\ nops' = nops + 1 =>
        LET nodes == ctx.tree.nodes
            after == ctx'.tree.nodes
            K     == Keys(reply'.path)
            gone  == {Q \in DOMAIN nodes : IsPrefix(K, Q)} \cup EmptiedBy(nodes, K)
        IN IF reply'.path # <<>> /\ Resolves(nodes, reply'.path)
             THEN /\ reply'.err = "OK"
                  /\ DOMAIN after = DOMAIN nodes \ gone
                  /\ \A Q \in DOMAIN after :
                       /\ after[Q] = nodes[Q]
                       /\ Resolves(nodes, Q) => Resolves(after, Q)
             ELSE reply'.err = "false" /\ after = nodes ]_vars

\* a removal took the file d/d/a and the directory d/d above it away and
\* stopped at d, which still holds d/a
RemovedUpToSibling ==
  /\ reply.op = "removeFromTree" /\ reply.err = "OK"
  /\ Keys(reply.path) = <<"d", "d", "a">>
  /\ <<"d", "d">> \notin DOMAIN ctx.tree.nodes
  /\ <<"d", "a">> \in DOMAIN ctx.tree.nodes
  /\ <<"d">> \in DOMAIN ctx.tree.nodes


(* ------------------- the casing a directory lists its children with ------- *)
CasingWorlds ==
  {[base |-> b, mA |-> x, mB |-> y, ov |-> o, st |-> <<>>, cwd |-> EmptyDir] :
     b \in BaseDirs,
     x \in {EmptyDir @@ File(<<"A">>, 6) @@ File(<<"meta.ini">>, 6),
            EmptyDir @@ Dir(<<"d">>) @@ File(<<"d", "A">>, 6)},
     y \in {EmptyDir @@ File(<<"a">>, 7),
            EmptyDir @@ Dir(<<"d">>) @@ File(<<"d", "a">>, 7) @@ File(<<"D">>, 7)},
     o \in {<<>>, EmptyDir @@ Dir(<<"D">>) @@ File(<<"D", "a">>, 8)}}

InitCasing ==
  /\ disk \in CasingWorlds
  /\ ctx = NoContext
  /\ ctl = NewConnector
  /\ reply = Reply("none", "OK")
  /\ fault = NoFault
  /\ nops = 0
  /\ thr = [t \in Threads |-> IdleThread]
  /\ lock = NewLock
  /\ hist = NewHist

NextCasing == Compose \/ Recompose \/ Create \/ Mkdir

SpecCasing == InitCasing /\ [][NextCasing]_vars

\* every node is listed under a spelling of its own key
KeysSpelled ==
  \A K \in DOMAIN ctx.tree.nodes : Lower(ctx.tree.nodes[K].display) = K[Len(K)]

\* the entries of source i whose insertion passes through the key path K
Through(i, K) ==
  {q \in DOMAIN SourceDir(i) \ {<<>>} :
     IsPrefix(K, Keys(q)) /\ (i = 1 \/ q # <<"meta.ini">>)}

\* the node at K is listed as the last source that passes through K spells it
SpelledByLastSource ==
  \A K \in DOMAIN ctx.tree.nodes :
    \A i \in DOMAIN Sources :
      (Through(i, K) # {} /\ \A j \in DOMAIN Sources : j > i => Through(j, K) = {})
        => ctx.tree.nodes[K].display \in {q[Len(K)] : q \in Through(i, K)}

\* resolve(p) is one file of `files` of source i, in content and in casing
ResolvesAndSpells(i, p, files) ==
  LET res == resolve(ctx.tree.nodes, p) IN
  /\ res.found /\ ~res.node.is_directory
  /\ \E q \in files :
       /\ res.node.real_path = RefOf(i, q).real_path
       /\ res.node.display = q[Len(q)]

\* an insertion through the adapter spelled every node on its way as the
\* path spells it and left the casing of every other node alone
InsertionSpells ==
  reply'.op \in {"create", "mkdir"} /\ reply'.err = "OK" /\ nops' = nops + 1 =>
    LET components == splitPath(reply'.path)
        K          == Keys(components)
    IN /\ \A i \in 1..Len(K) :
            /\ SubSeq(K, 1, i) \in DOMAIN ctx'.tree.nodes
            /\ ctx'.tree.nodes[SubSeq(K, 1, i)].display = components[i]
       /\ \A Q \in DOMAIN ctx'.tree.nodes :
            ~IsPrefix(Q, K) /\ Q \in DOMAIN ctx.tree.nodes
              => ctx'.tree.nodes[Q].display = ctx.tree.nodes[Q].display

DiskAccess(op, step) ==
  \/ step \in {"io", "file_size"}
  \/ op = "rename" /\ step = "move"

\* C40: no adapter operation goes to the disk (existence test, stat, copy,
\* write, rename) while it holds the tree lock, shared or exclusive.
NoDiskAccessUnderTreeLock ==
  \A t \in Workers :
    thr[t].op # "idle" /\ HoldsTreeMutex(t) => ~DiskAccess(thr[t].op, Step(t))

====
